---- MODULE Spec2Model ----
(***************************************************************************)
(* Limit order book (price-time priority matching engine).                 *)
(* Model of src/src/core/include/order.h (Order, OrderBook) together with  *)
(* the value types of src/order_book/include.                              *)
(*                                                                         *)
(* An Order object is the record                                           *)
(*   [orderType, orderId, side, price, initialQuantity, remainingQuantity] *)
(* A ladder (std::map<Price, std::list<OrderPointer>>) is a function from  *)
(* the set of prices that have a level to the FIFO queue of that level.    *)
(* The index (std::unordered_map<OrderId, OrderEntry>) is a function from  *)
(* the set of indexed ids to [order_, location_].  The shared Order object *)
(* is visible through the queue node and through order_; Fill updates both *)
(* views.  A std::list iterator is stable and designates one node; it is   *)
(* modelled by the id of the order that node holds.                        *)
(***************************************************************************)
EXTENDS Integers, Sequences, FiniteSets, TLC

\* ------------------------------------------------------------------ bounds
MaxPrice == 0
MaxQuantity == 2

\* the ids the callers use; the book only compares ids for equality
OrderIds == {1, 2, 3}

\* between two calls the explored books leave one id free for the next order
MaxResting == Cardinality(OrderIds) - 1

\* Quantity is std::uint32_t: its arithmetic wraps modulo 2^32.  The model
\* keeps the wrap-around at a width the model checker's integers can hold.
QuantityBits == 2
QuantityModulus == 2 ^ QuantityBits

Buy == "Buy"
Sell == "Sell"
Sides == {Buy, Sell}

GoodTillCancel == "GoodTillCancel"
ImmediateOrCancel == "ImmediateOrCancel"
FillOrKill == "FillOrKill"
OrderTypes == {GoodTillCancel, ImmediateOrCancel, FillOrKill}

\* a null OrderPointer
nullptr == [null |-> TRUE]

\* the last call returned no size and no snapshot
NoResult == [none |-> TRUE]

Prices == (-1)..MaxPrice
Quantities == 1..MaxQuantity

VARIABLES
    bids,       \* bids_  : price -> queue of orders, best = highest price
    asks,       \* asks_  : price -> queue of orders, best = lowest price
    orders,     \* orders_: id -> [order_, location_]
    arrival,    \* history: per side and price, the ids of the resting orders
                \* in the order of their admission
    lastOp,     \* the public call that has just ended (name, argument and
                \* outcome) until its caller has taken the result
    trades,     \* the Trades returned by the last public call
    fills,      \* history: one entry per trade of the last call, with the
                \*          ladders as they were just before that trade
    before,     \* history: the ladders and the index as they were when the
                \*          last call began
    returned,   \* the value the last Size or GetOrderInfos call returned
    thisOrder,  \* an Order object of its own, outside any book
    lastFill,   \* history: the last Fill call on thisOrder
    legs,       \* history, where it is kept: per order id, the initial
                \*          quantity of the order last admitted under it, the
                \*          quantity of the trade legs of that order, and the
                \*          quantity of all trade legs that carried the id
    ended,      \* history, where it is kept: the Order object of the caller
                \*          that last reached the end of its life in the
                \*          book, as the book left it, and how it ended
    pc,                 \* per thread: the statement it is at
    frame,              \* per thread: the call it is in and its locals
    performanceMutex_,  \* std::mutex: the thread that holds it
    orderBookMutex_,    \* std::shared_mutex: exclusive holder, shared holders
    enabled_,           \* PerformanceTracker::enabled_
    metrics_,           \* PerformanceTracker::metrics_
    committed,          \* history: the book when the exclusive lock was last
                        \*          released
    results             \* history, where it is kept: per thread, the method
                        \*          and the outcome of the call it last
                        \*          returned from

bookVars ==
    <<bids, asks, orders, arrival, lastOp, trades, fills, before, returned>>
objectVars == <<thisOrder, lastFill>>
threadVars ==
    <<pc, frame, performanceMutex_, orderBookMutex_, enabled_, metrics_,
      committed, results>>
vars == <<bookVars, objectVars, legs, ended, threadVars>>

\* ------------------------------------------------------------ small helpers
Min(S) == CHOOSE x \in S : \A y \in S : x <= y
Max(S) == CHOOSE x \in S : \A y \in S : x >= y

\* std::map::erase(key)
MapErase(m, k) == [x \in DOMAIN m \ {k} |-> m[x]]

\* the keys of a ladder in iteration order
RECURSIVE Ascending(_)
Ascending(S) == IF S = {} THEN <<>> ELSE <<Min(S)>> \o Ascending(S \ {Min(S)})
RECURSIVE Descending(_)
Descending(S) == IF S = {} THEN <<>> ELSE <<Max(S)>> \o Descending(S \ {Max(S)})

\* std::list::erase(iterator): unlink the node the iterator designates
ListEraseAsPopFront(queue, it) == Tail(queue)
ListErase(queue, it) == SelectSeq(queue, LAMBDA n : n.orderId # it)

\* admission history: an order is admitted / leaves the book
Arrive(history, order) ==
    LET key == <<order.side, order.price>>
    IN [k \in DOMAIN history \cup {key} |->
          IF k = key
          THEN (IF key \in DOMAIN history
                THEN Append(history[key], order.orderId)
                ELSE <<order.orderId>>)
          ELSE history[k]]
Depart(history, order) ==
    LET key == <<order.side, order.price>>
    IN IF key \notin DOMAIN history THEN history
       ELSE LET rest == SelectSeq(history[key],
                                  LAMBDA i : i # order.orderId)
            IN IF rest = <<>> THEN MapErase(history, key)
               ELSE [history EXCEPT ![key] = rest]

\* ------------------------------------------------------------------- Order
\* Order::Order: the constructor throws on quantity 0 and on id 0
OrderCtorThrows(orderId, quantity) == quantity = 0 \/ orderId = 0

NewOrder(orderType, orderId, side, price, quantity) ==
    [orderType |-> orderType, orderId |-> orderId, side |-> side,
     price |-> price, initialQuantity |-> quantity,
     remainingQuantity |-> quantity]

IsFilled(o) == o.remainingQuantity = 0

GetFilledQuantity(o) ==
    (o.initialQuantity - o.remainingQuantity) % QuantityModulus

\* a Fill without the check against the remaining quantity
FillNeverThrows(o, quantity) == FALSE

\* Order::Fill: does the call throw std::logic_error?
FillThrows(o, quantity) == quantity # 0 /\ quantity > o.remainingQuantity

\* a Fill that takes one unit whatever the quantity
FillDecrementsByOne(o, quantity) ==
    IF quantity = 0 THEN o
    ELSE [o EXCEPT !.remainingQuantity = (@ - 1) % QuantityModulus]

\* Order::Fill: the order after a call that does not throw
Fill(o, quantity) ==
    IF quantity = 0 THEN o
    ELSE [o EXCEPT !.remainingQuantity = (@ - quantity) % QuantityModulus]

\* ------------------------------------------------------------- OrderModify
NewOrderModify(orderId, side, price, quantity) ==
    [orderId |-> orderId, side |-> side, price |-> price,
     quantity |-> quantity]

\* OrderModify::ToOrderPointer (make_shared<Order>, which may throw)
ToOrderPointerAsImmediateOrCancel(m, orderType) ==
    NewOrder(ImmediateOrCancel, m.orderId, m.side, m.price, m.quantity)
ToOrderPointer(m, orderType) ==
    NewOrder(orderType, m.orderId, m.side, m.price, m.quantity)

\* ------------------------------------------------------------------- Trade
TradeInfo(orderId, price, quantity) ==
    [orderId_ |-> orderId, price_ |-> price, quantity_ |-> quantity]

Trade(bidTrade, askTrade) == [bidTrade_ |-> bidTrade, askTrade_ |-> askTrade]

\* --------------------------------------------------------------- OrderBook
\* bids_.begin()->first under std::greater, asks_.begin()->first under
\* std::less
BestBidAsLowest(bidLadder) == Min(DOMAIN bidLadder)
BestBid(bidLadder) == Max(DOMAIN bidLadder)
BestAsk(askLadder) == Min(DOMAIN askLadder)

\* ladder[price].push_back(order): operator[] creates the level if absent
PushBackAsPushFront(ladder, price, order) ==
    [p \in DOMAIN ladder \cup {price} |->
        IF p = price
        THEN (IF price \in DOMAIN ladder THEN <<order>> \o ladder[price]
              ELSE <<order>>)
        ELSE ladder[p]]
PushBack(ladder, price, order) ==
    [p \in DOMAIN ladder \cup {price} |->
        IF p = price
        THEN (IF price \in DOMAIN ladder THEN Append(ladder[price], order)
              ELSE <<order>>)
        ELSE ladder[p]]

\* std::prev(orders.end()): iterator to the last node of the queue
PrevEndAsBegin(queue) == queue[1].orderId
PrevEnd(queue) == queue[Len(queue)].orderId

\* OrderBook::CanMatch
CanMatch(bk, side, price) ==
    IF side = Buy
    THEN (IF DOMAIN bk.asks = {} THEN FALSE ELSE price >= BestAsk(bk.asks))
    ELSE (IF DOMAIN bk.bids = {} THEN FALSE ELSE price <= BestBid(bk.bids))

\* inner loop of CanFillCompletely over the orders of one level; yields the
\* running sum (a Quantity, so modulo 2^32) and whether the loop returned
RECURSIVE AccumulateLevel(_, _, _, _)
AccumulateLevel(queue, i, availableQuantity, quantity) ==
    IF i > Len(queue)
    THEN [found |-> FALSE, availableQuantity |-> availableQuantity]
    ELSE LET sum == (availableQuantity + queue[i].remainingQuantity)
                        % QuantityModulus
         IN IF sum >= quantity
            THEN [found |-> TRUE, availableQuantity |-> sum]
            ELSE AccumulateLevel(queue, i + 1, sum, quantity)

\* outer loop of CanFillCompletely over the levels in ladder order
RECURSIVE WalkLevels(_, _, _, _, _, _, _)
WalkLevels(ladder, levels, i, side, price, availableQuantity, quantity) ==
    IF i > Len(levels) THEN FALSE
    ELSE IF (side = Buy /\ levels[i] > price)
            \/ (side = Sell /\ levels[i] < price) THEN FALSE
    ELSE LET r == AccumulateLevel(ladder[levels[i]], 1, availableQuantity,
                                  quantity)
         IN IF r.found THEN TRUE
            ELSE WalkLevels(ladder, levels, i + 1, side, price,
                            r.availableQuantity, quantity)

\* OrderBook::CanFillCompletely
CanFillCompletelyAsCanMatch(bk, side, price, quantity) ==
    CanMatch(bk, side, price)
CanFillCompletely(bk, side, price, quantity) ==
    IF side = Buy
    THEN WalkLevels(bk.asks, Ascending(DOMAIN bk.asks), 1, side, price, 0,
                    quantity)
    ELSE WalkLevels(bk.bids, Descending(DOMAIN bk.bids), 1, side, price, 0,
                    quantity)

\* erase of one order from the ladder of its side, as CancelOrderInternal
\* does it: find the level, erase the node, drop the level when empty
EraseFromLadderKeepsLevel(ladder, price, it) ==
    IF price \in DOMAIN ladder
    THEN [ladder EXCEPT ![price] = ListErase(@, it)]
    ELSE ladder
EraseFromLadder(ladder, price, it) ==
    IF price \in DOMAIN ladder
    THEN LET queue == ListErase(ladder[price], it)
         IN IF queue = <<>> THEN MapErase(ladder, price)
            ELSE [ladder EXCEPT ![price] = queue]
    ELSE ladder

\* OrderBook::CancelOrderInternal
CancelOrderInternalKeepsIndex(bk, orderId) ==
    IF orderId \notin DOMAIN bk.orders THEN bk
    ELSE LET order == bk.orders[orderId].order_
             iterator == bk.orders[orderId].location_
         IN [bk EXCEPT
               !.asks = IF order.side = Sell
                        THEN EraseFromLadder(@, order.price, iterator)
                        ELSE @,
               !.bids = IF order.side = Sell THEN @
                        ELSE EraseFromLadder(@, order.price, iterator)]
CancelOrderInternal(bk, orderId) ==
    IF orderId \notin DOMAIN bk.orders THEN bk
    ELSE LET order == bk.orders[orderId].order_
             iterator == bk.orders[orderId].location_
         IN [bk EXCEPT
               !.asks = IF order.side = Sell
                        THEN EraseFromLadder(@, order.price, iterator)
                        ELSE @,
               !.bids = IF order.side = Sell THEN @
                        ELSE EraseFromLadder(@, order.price, iterator),
               !.orders = MapErase(@, orderId),
               !.arrival = Depart(@, order)]

\* the shared Order object changed by Fill is the one the index entry of
\* its id points to
ShareFill(index, old, new) ==
    [i \in DOMAIN index |->
        IF index[i].order_ = old THEN [index[i] EXCEPT !.order_ = new]
        ELSE index[i]]

\* bids.front() / asks.front()
Front(queue) == Head(queue)

\* the execution price MatchOrders stamps on both legs of a trade
ExecutionPriceAsBid(bid, ask) == bid.price
ExecutionPrice(bid, ask) == ask.price

\* a matcher that trades one unit at a time
TradeQuantityAsOne(bid, ask) == 1

\* a matcher that trades the larger of the two remaining quantities
TradeQuantityAsMax(bid, ask) ==
    Max({bid.remainingQuantity, ask.remainingQuantity})

\* the quantity MatchOrders trades between the two head orders
TradeQuantity(bid, ask) ==
    Min({bid.remainingQuantity, ask.remainingQuantity})

\* a matcher that sends a partly filled head order to the back of its queue
SettleHeadRequeues(queue, filled) ==
    IF IsFilled(filled) THEN Tail(queue) ELSE Tail(queue) \o <<filled>>

\* after the fill of a head order: pop it and drop it from the index when
\* it is filled, else it stays at the head with its reduced remainder
SettleHead(queue, filled) ==
    IF IsFilled(filled) THEN Tail(queue) ELSE <<filled>> \o Tail(queue)

\* inner while loop of MatchOrders: the two queues at the best prices
RECURSIVE MatchLevel(_, _, _)
MatchLevel(bk, bidPrice, askPrice) ==
    IF bk.threw \/ bk.bids[bidPrice] = <<>> \/ bk.asks[askPrice] = <<>>
    THEN bk
    ELSE
      LET bid == Front(bk.bids[bidPrice])
          ask == Front(bk.asks[askPrice])
          quantity == TradeQuantity(bid, ask)
      IN
      IF FillThrows(bid, quantity) THEN [bk EXCEPT !.threw = TRUE]
      ELSE IF FillThrows(ask, quantity)
      THEN [bk EXCEPT !.threw = TRUE,
                      !.bids[bidPrice] = <<Fill(bid, quantity)>> \o Tail(@),
                      !.orders = ShareFill(@, bid, Fill(bid, quantity))]
      ELSE
        LET bidF == Fill(bid, quantity)
            askF == Fill(ask, quantity)
            executionPrice == ExecutionPrice(bidF, askF)
            trade == Trade(TradeInfo(bidF.orderId, executionPrice, quantity),
                           TradeInfo(askF.orderId, executionPrice, quantity))
            filled1 == ShareFill(ShareFill(bk.orders, bid, bidF), ask, askF)
            index1 == IF IsFilled(bidF) THEN MapErase(filled1, bidF.orderId)
                      ELSE filled1
            index2 == IF IsFilled(askF) THEN MapErase(index1, askF.orderId)
                      ELSE index1
            arrival1 == IF IsFilled(bidF) THEN Depart(bk.arrival, bid)
                        ELSE bk.arrival
            arrival2 == IF IsFilled(askF) THEN Depart(arrival1, ask)
                        ELSE arrival1
            bids1 == [bk.bids EXCEPT ![bidPrice] = SettleHead(@, bidF)]
            asks1 == [bk.asks EXCEPT ![askPrice] = SettleHead(@, askF)]
        IN MatchLevel(
             [bk EXCEPT
                !.bids = bids1,
                !.asks = asks1,
                !.orders = index2,
                !.arrival = arrival2,
                !.trades = Append(@, trade),
                !.fills = Append(@, [bids |-> bk.bids, asks |-> bk.asks,
                                     arrival |-> bk.arrival,
                                     trade |-> trade,
                                     bidsAfter |-> bids1,
                                     asksAfter |-> asks1,
                                     ordersAfter |-> index2])],
             bidPrice, askPrice)

\* bids_.erase(bidPrice) / asks_.erase(askPrice) when the queue is empty
EraseIfEmpty(ladder, price) ==
    IF ladder[price] = <<>> THEN MapErase(ladder, price) ELSE ladder

\* if (bidPrice < askPrice) break: the best prices do not cross
NoCrossStopsOnEqual(bidPrice, askPrice) == bidPrice <= askPrice
NoCrossNever(bidPrice, askPrice) == FALSE
NoCrossUnsigned(bidPrice, askPrice) ==
    IF (bidPrice < 0) = (askPrice < 0) THEN bidPrice < askPrice
    ELSE askPrice < 0
NoCross(bidPrice, askPrice) == bidPrice < askPrice

\* a matcher that leaves the outer loop after the first pair of levels
MatchLoopOnce(bk) ==
    IF bk.threw \/ DOMAIN bk.bids = {} \/ DOMAIN bk.asks = {} THEN bk
    ELSE LET bidPrice == BestBid(bk.bids)
             askPrice == BestAsk(bk.asks)
         IN IF NoCross(bidPrice, askPrice) THEN bk
            ELSE LET m == MatchLevel(bk, bidPrice, askPrice)
                 IN IF m.threw THEN m
                    ELSE [m EXCEPT !.bids = EraseIfEmpty(@, bidPrice),
                                   !.asks = EraseIfEmpty(@, askPrice)]

\* outer while (true) loop of MatchOrders
RECURSIVE MatchLoop(_)
MatchLoop(bk) ==
    IF bk.threw \/ DOMAIN bk.bids = {} \/ DOMAIN bk.asks = {} THEN bk
    ELSE LET bidPrice == BestBid(bk.bids)
             askPrice == BestAsk(bk.asks)
         IN IF NoCross(bidPrice, askPrice) THEN bk
            ELSE LET m == MatchLevel(bk, bidPrice, askPrice)
                 IN IF m.threw THEN m
                    ELSE MatchLoop(
                           [m EXCEPT
                              !.bids = EraseIfEmpty(@, bidPrice),
                              !.asks = EraseIfEmpty(@, askPrice)])

\* ordersToCancel of MatchOrders: the indexed ImmediateOrCancel and
\* FillOrKill orders
OrdersToCancelOnlyFillOrKill(index) ==
    {i \in DOMAIN index : index[i].order_.orderType = FillOrKill}
OrdersToCancel(index) ==
    {i \in DOMAIN index :
        index[i].order_.orderType \in {ImmediateOrCancel, FillOrKill}}

\* for (OrderId orderId : ordersToCancel) CancelOrderInternal(orderId)
RECURSIVE CancelAll(_, _)
CancelAll(bk, ids) ==
    IF ids = {} THEN bk
    ELSE LET id == Min(ids)
         IN CancelAll(CancelOrderInternal(bk, id), ids \ {id})

\* a matcher without the sweep of the orders that must not rest
MatchOrdersWithoutSweep(bk) ==
    MatchLoop([bk EXCEPT !.trades = <<>>, !.fills = <<>>])

\* OrderBook::MatchOrders
MatchOrders(bk) ==
    LET m == MatchLoop([bk EXCEPT !.trades = <<>>, !.fills = <<>>])
    IN IF m.threw THEN m ELSE CancelAll(m, OrdersToCancel(m.orders))

\* the admission checks of AddOrder / AddOrderInternal, in order
RejectedKeepsExhausted(bk, order) ==
    IF order = nullptr THEN TRUE
    ELSE IF order.orderId \in DOMAIN bk.orders THEN TRUE
    ELSE IF order.orderType = ImmediateOrCancel
            /\ ~CanMatch(bk, order.side, order.price) THEN TRUE
    ELSE IF order.orderType = FillOrKill
            /\ ~CanFillCompletely(bk, order.side, order.price,
                                  order.remainingQuantity) THEN TRUE
    ELSE FALSE
Rejected(bk, order) ==
    IF order = nullptr THEN TRUE
    ELSE IF order.remainingQuantity = 0 THEN TRUE
    ELSE IF order.orderId = 0 THEN TRUE
    ELSE IF order.orderId \in DOMAIN bk.orders THEN TRUE
    ELSE IF order.orderType = ImmediateOrCancel
            /\ ~CanMatch(bk, order.side, order.price) THEN TRUE
    ELSE IF order.orderType = FillOrKill
            /\ ~CanFillCompletely(bk, order.side, order.price,
                                  order.remainingQuantity) THEN TRUE
    ELSE FALSE

\* unordered_map::insert keeps an existing entry of the same key
IndexInsert(index, orderId, entry) ==
    [i \in DOMAIN index \cup {orderId} |->
        IF i \in DOMAIN index THEN index[i] ELSE entry]

\* a placement that forgets the index entry
PlaceWithoutIndex(bk, order) ==
    [bk EXCEPT
       !.bids = IF order.side = Buy THEN PushBack(@, order.price, order)
                ELSE @,
       !.asks = IF order.side = Buy THEN @
                ELSE PushBack(@, order.price, order),
       !.arrival = Arrive(@, order)]

\* placement: push_back on the level of the order's side and price, then
\* the index entry with the iterator to the new node
Place(bk, order) ==
    LET ladder == IF order.side = Buy THEN PushBack(bk.bids, order.price, order)
                  ELSE PushBack(bk.asks, order.price, order)
        iterator == PrevEnd(ladder[order.price])
    IN [bk EXCEPT
          !.bids = IF order.side = Buy THEN ladder ELSE @,
          !.asks = IF order.side = Buy THEN @ ELSE ladder,
          !.orders = IndexInsert(@, order.orderId,
                                 [order_ |-> order, location_ |-> iterator]),
          !.arrival = Arrive(@, order)]

\* OrderBook::AddOrderInternal
AddOrderInternalWithoutTypeChecks(bk, order) ==
    IF order = nullptr THEN [bk EXCEPT !.trades = <<>>, !.fills = <<>>]
    ELSE IF order.remainingQuantity = 0 \/ order.orderId = 0
            \/ order.orderId \in DOMAIN bk.orders
    THEN [bk EXCEPT !.trades = <<>>, !.fills = <<>>]
    ELSE MatchOrders(Place(bk, order))
AddOrderInternalWithoutDuplicateCheck(bk, order) ==
    IF order = nullptr THEN [bk EXCEPT !.trades = <<>>, !.fills = <<>>]
    ELSE IF order.remainingQuantity = 0 \/ order.orderId = 0
    THEN [bk EXCEPT !.trades = <<>>, !.fills = <<>>]
    ELSE MatchOrders(Place(bk, order))
AddOrderInternal(bk, order) ==
    IF Rejected(bk, order) THEN [bk EXCEPT !.trades = <<>>, !.fills = <<>>]
    ELSE MatchOrders(Place(bk, order))

\* OrderBook::SizeInternal
SizeInternal(bk) == Cardinality(DOMAIN bk.orders)

\* std::accumulate over the orders of one level, from (Quantity)0: the
\* running sum is a Quantity, so it wraps
RECURSIVE Accumulate(_, _, _)
Accumulate(queue, i, runningSum) ==
    IF i > Len(queue) THEN runningSum
    ELSE Accumulate(queue, i + 1,
                    (runningSum + queue[i].remainingQuantity)
                        % QuantityModulus)

\* the CreateLevelInfos lambda of GetOrderInfos
CreateLevelInfos(price, queue) ==
    [price_ |-> price, quantity_ |-> Accumulate(queue, 1, 0)]

\* for (const auto& [price, orders] : ladder) infos.push_back(...)
LevelInfos(ladder, levels) ==
    [i \in DOMAIN levels |-> CreateLevelInfos(levels[i], ladder[levels[i]])]

\* OrderBook::GetOrderInfosInternal
GetOrderInfosInternal(bk) ==
    [bids_ |-> LevelInfos(bk.bids, Descending(DOMAIN bk.bids)),
     asks_ |-> LevelInfos(bk.asks, Ascending(DOMAIN bk.asks))]

\* the book as the operations see it
Book ==
    [bids |-> bids, asks |-> asks, orders |-> orders, arrival |-> arrival,
     trades |-> <<>>, fills |-> <<>>, threw |-> FALSE]

\* -------------------------------------------------------------- the inputs
\* Order handles a caller can hold: null, an Order object as its constructor
\* made it, or one of quantity 1 that an earlier stay in a book has filled
FreshOrders ==
    {NewOrder(t, i, s, p, q) :
        t \in OrderTypes, i \in OrderIds, s \in Sides, p \in Prices,
        q \in Quantities}
ExhaustedOrders ==
    {Fill(o, 1) : o \in {f \in FreshOrders : f.initialQuantity = 1}}
OrderHandles == {nullptr} \cup FreshOrders \cup ExhaustedOrders

\* OrderModify has no validation: any id and any quantity, 0 included
OrderModifies ==
    [orderId : {0} \cup OrderIds, side : Sides, price : Prices,
     quantity : 0..MaxQuantity]

\* ------------------------------------------------------------------ actions
InitBook ==
    /\ bids = <<>>
    /\ asks = <<>>
    /\ orders = <<>>
    /\ arrival = <<>>
    /\ lastOp = [name |-> "none", arg |-> nullptr, outcome |-> "none"]
    /\ trades = <<>>
    /\ fills = <<>>
    /\ before = [bids |-> <<>>, asks |-> <<>>, orders |-> <<>>]
    /\ returned = NoResult

InitObject ==
    /\ thisOrder = nullptr
    /\ lastFill = NoResult

\* the threads that call the book, and the value of a mutex nobody holds
Threads == {"t1", "t2"}
NoThread == "none"

\* a thread outside any call
NoFrame ==
    [name |-> "none", arg |-> nullptr, order |-> nullptr,
     outcome |-> "none", invoked |-> <<>>, result |-> NoResult]

\* OrderBook and PerformanceTracker as constructed: both mutexes free,
\* tracking enabled, no metrics
InitCalls ==
    /\ pc = [t \in Threads |-> "idle"]
    /\ frame = [t \in Threads |-> NoFrame]
    /\ performanceMutex_ = NoThread
    /\ orderBookMutex_ = [exclusive |-> NoThread, shared |-> {}]
    /\ enabled_ = TRUE
    /\ metrics_ = "empty"
    /\ committed = [bids |-> <<>>, asks |-> <<>>, orders |-> <<>>]

InitThreads == InitCalls /\ results = NoResult

Init ==
    /\ InitBook
    /\ InitObject
    /\ legs = NoResult
    /\ ended = NoResult
    /\ InitThreads

\* the total quantity the trades carry on the leg of one order
RECURSIVE LegQuantity(_, _, _)
LegQuantity(ts, side, id) ==
    IF ts = <<>> THEN 0
    ELSE LET leg == IF side = Buy THEN Head(ts).bidTrade_
                    ELSE Head(ts).askTrade_
         IN (IF leg.orderId_ = id THEN leg.quantity_ ELSE 0)
               + LegQuantity(Tail(ts), side, id)

\* the most quantity the history of one id adds up before it stops
MaxLegs == MaxQuantity + 1

\* the history of trade legs after a call: an admitted order starts anew
\* under its id, and every trade of the call counts on both of its legs
LegsAfter(name, arg, outcome, ts) ==
    LET admits(id) ==
            /\ outcome \in {"Success", "Threw"}
            /\ \/ name = "AddOrder"
               \/ name = "MatchOrder"
                  /\ ~OrderCtorThrows(arg.orderId, arg.quantity)
            /\ arg.orderId = id
        initial(id) ==
            IF name = "AddOrder" THEN arg.initialQuantity ELSE arg.quantity
        traded(id) == LegQuantity(ts, Buy, id) + LegQuantity(ts, Sell, id)
    IN [id \in OrderIds |->
          [initial |-> IF admits(id) THEN initial(id) ELSE legs[id].initial,
           sum |-> (IF admits(id) THEN 0 ELSE legs[id].sum) + traded(id),
           ever |-> legs[id].ever + traded(id)]]

\* the caller's Order object that the call brought to the end of its life,
\* if it did: one the add rejected, one the add filled whole, or one a
\* cancel took out of the book before any fill had changed it
EndedAfter(name, arg, outcome, after) ==
    IF name = "AddOrder" /\ outcome = "Rejected" /\ arg # nullptr
    THEN [order |-> arg, state |-> "Rejected"]
    ELSE IF /\ name = "AddOrder"
            /\ outcome = "Success"
            /\ arg.orderId \notin DOMAIN after.orders
            /\ LegQuantity(after.trades, arg.side, arg.orderId)
                 = arg.remainingQuantity
    THEN [order |-> [arg EXCEPT !.remainingQuantity = 0],
          state |-> "Filled"]
    ELSE IF /\ name = "CancelOrder"
            /\ outcome = "Success"
            /\ orders[arg.orderId].order_.remainingQuantity
                 = orders[arg.orderId].order_.initialQuantity
    THEN [order |-> orders[arg.orderId].order_, state |-> "Cancelled"]
    ELSE ended

Commit(bk, name, arg, outcome) ==
    \E after \in {bk} :
        /\ Cardinality(DOMAIN after.orders) <= MaxResting
        /\ bids' = after.bids
        /\ asks' = after.asks
        /\ orders' = after.orders
        /\ arrival' = after.arrival
        /\ trades' = after.trades
        /\ fills' = after.fills
        /\ before' = [bids |-> bids, asks |-> asks, orders |-> orders]
        /\ returned' = NoResult
        /\ lastOp' = [name |-> name, arg |-> arg, outcome |-> outcome]
        /\ IF legs = NoResult THEN legs' = legs
           ELSE /\ legs' = LegsAfter(name, arg, outcome, after.trades)
                /\ \A id \in OrderIds : legs'[id].ever <= MaxLegs
        /\ ended' = IF ended = NoResult THEN ended
                    ELSE EndedAfter(name, arg, outcome, after)
        /\ UNCHANGED <<objectVars, threadVars>>

\* no call is in progress and the last result has been taken
Idle == lastOp.name = "none"

\* OrderBook::AddOrder
AddOrder(order) ==
    /\ Idle
    /\ LET bk == AddOrderInternal(Book, order)
       IN Commit(bk, "AddOrder", order,
                 IF Rejected(Book, order) THEN "Rejected"
                 ELSE IF bk.threw THEN "Threw" ELSE "Success")

\* OrderBook::CancelOrder
CancelOrder(orderId) ==
    /\ Idle
    /\ Commit(CancelOrderInternal(Book, orderId), "CancelOrder",
              [orderId |-> orderId],
              IF orderId \in DOMAIN orders THEN "Success" ELSE "NotFound")

\* OrderBook::MatchOrder (modify: cancel and replace); the replacement is
\* constructed after the cancel, and its constructor may throw
MatchOrderAdmitsUnknown(order) ==
    /\ Idle
    /\ LET known == order.orderId \in DOMAIN orders
           orderType == IF known THEN orders[order.orderId].order_.orderType
                        ELSE GoodTillCancel
           cancelled == CancelOrderInternal(Book, order.orderId)
       IN IF OrderCtorThrows(order.orderId, order.quantity)
          THEN Commit(cancelled, "MatchOrder", order,
                      IF known THEN "Threw" ELSE "NotFound")
          ELSE Commit(AddOrderInternal(cancelled,
                                       ToOrderPointer(order, orderType)),
                      "MatchOrder", order,
                      IF known THEN "Success" ELSE "NotFound")
MatchOrderInPlace(order) ==
    /\ Idle
    /\ IF order.orderId \notin DOMAIN orders
       THEN Commit(Book, "MatchOrder", order, "NotFound")
       ELSE LET old == orders[order.orderId].order_
                new == ToOrderPointer(order, old.orderType)
                amend(queue) ==
                    [i \in DOMAIN queue |->
                        IF queue[i].orderId = order.orderId THEN new
                        ELSE queue[i]]
            IN IF OrderCtorThrows(order.orderId, order.quantity)
               THEN Commit(CancelOrderInternal(Book, order.orderId),
                           "MatchOrder", order, "Threw")
               ELSE IF old.side = order.side /\ old.price = order.price
               THEN Commit([Book EXCEPT
                              !.bids = IF old.side = Buy
                                       THEN [@ EXCEPT ![old.price] = amend(@)]
                                       ELSE @,
                              !.asks = IF old.side = Sell
                                       THEN [@ EXCEPT ![old.price] = amend(@)]
                                       ELSE @,
                              !.orders = [@ EXCEPT ![order.orderId].order_ =
                                                      new]],
                           "MatchOrder", order, "Success")
               ELSE Commit(AddOrderInternal(
                             CancelOrderInternal(Book, order.orderId), new),
                           "MatchOrder", order, "Success")
MatchOrder(order) ==
    /\ Idle
    /\ IF order.orderId \notin DOMAIN orders
       THEN Commit(Book, "MatchOrder", order, "NotFound")
       ELSE LET orderType == orders[order.orderId].order_.orderType
                cancelled == CancelOrderInternal(Book, order.orderId)
            IN IF OrderCtorThrows(order.orderId, order.quantity)
               THEN Commit(cancelled, "MatchOrder", order, "Threw")
               ELSE LET bk == AddOrderInternal(cancelled,
                                  ToOrderPointer(order, orderType))
                    IN Commit(bk, "MatchOrder", order,
                              IF bk.threw THEN "Threw" ELSE "Success")

\* a clear that forgets orders_.clear()
ClearBookKeepsIndex(bk) ==
    [bk EXCEPT !.bids = <<>>, !.asks = <<>>, !.arrival = <<>>]

\* the body of OrderBook::clear: bids_.clear(); asks_.clear(); orders_.clear()
ClearBook(bk) ==
    [bk EXCEPT !.bids = <<>>, !.asks = <<>>, !.orders = <<>>,
               !.arrival = <<>>]

\* OrderBook::clear
Clear ==
    /\ Idle
    /\ Commit(ClearBook(Book), "clear", nullptr, "Success")

\* a call that only reads the book
Read(name, value) ==
    /\ Idle
    /\ returned' = value
    /\ lastOp' = [name |-> name, arg |-> nullptr, outcome |-> "Success"]
    /\ before' = [bids |-> bids, asks |-> asks, orders |-> orders]
    /\ trades' = <<>>
    /\ fills' = <<>>
    /\ UNCHANGED <<bids, asks, orders, arrival>>
    /\ UNCHANGED <<objectVars, legs, ended, threadVars>>

\* OrderBook::Size
Size == Read("Size", SizeInternal(Book))

\* OrderBook::GetOrderInfos
GetOrderInfos == Read("GetOrderInfos", GetOrderInfosInternal(Book))

\* the caller takes the result of the call that ended; the book is untouched
Return ==
    /\ ~Idle
    /\ lastOp' = [name |-> "none", arg |-> nullptr, outcome |-> "none"]
    /\ trades' = <<>>
    /\ fills' = <<>>
    /\ before' = [bids |-> <<>>, asks |-> <<>>, orders |-> <<>>]
    /\ returned' = NoResult
    /\ UNCHANGED <<bids, asks, orders, arrival>>
    /\ UNCHANGED <<objectVars, legs, ended, threadVars>>

Next ==
    \/ \E order \in OrderHandles : AddOrder(order)
    \/ \E orderId \in OrderIds : CancelOrder(orderId)
    \/ \E order \in OrderModifies : MatchOrder(order)
    \/ Clear
    \/ Size
    \/ GetOrderInfos
    \/ Return

Spec == Init /\ [][Next]_vars

\* ------------------------------------------- the book with its trade history
\* the same book, started with the history of trade legs kept, and driven by
\* resting and immediate orders of two ids
LegIds == {1, 2}
LegOrders ==
    {o \in FreshOrders : o.orderId \in LegIds /\ o.orderType # FillOrKill}
LegModifies == {m \in OrderModifies : m.orderId \in LegIds}

InitLegs ==
    /\ InitBook
    /\ InitObject
    /\ legs = [id \in OrderIds |-> [initial |-> 0, sum |-> 0, ever |-> 0]]
    /\ ended = NoResult
    /\ InitThreads

NextLegs ==
    \/ \E order \in LegOrders : AddOrder(order)
    \/ \E orderId \in LegIds : CancelOrder(orderId)
    \/ \E order \in LegModifies : MatchOrder(order)
    \/ Return

SpecLegs == InitLegs /\ [][NextLegs]_vars

\* ------------------------------------------------- the life of an Order
\* the book with a record of the caller's Order object that last ended its
\* life in it; the caller holds every Order it ever passed to AddOrder and
\* may pass it again
LifecycleOrders ==
    {o \in FreshOrders \cup ExhaustedOrders :
        o.orderId \in LegIds /\ o.orderType # FillOrKill}

InitLifecycle ==
    /\ InitBook
    /\ InitObject
    /\ legs = NoResult
    /\ ended = [order |-> nullptr, state |-> "none"]
    /\ InitThreads

NextLifecycle ==
    \/ \E order \in LifecycleOrders : AddOrder(order)
    \/ \E orderId \in LegIds : CancelOrder(orderId)
    \/ Return

SpecLifecycle == InitLifecycle /\ [][NextLifecycle]_vars

\* ------------------------------------------------- an Order object by itself
\* every value of the unsigned type Quantity
AllQuantities == 0..(QuantityModulus - 1)

\* the object is any order the constructor builds
InitOrder ==
    /\ InitBook
    /\ thisOrder \in FreshOrders
    /\ lastFill = NoResult
    /\ legs = NoResult
    /\ ended = NoResult
    /\ InitThreads

\* a call thisOrder.Fill(quantity): a throw leaves the function before the
\* assignment to remainingQuantity_
FillOrder(quantity) ==
    /\ lastFill' = [quantity |-> quantity,
                    threw |-> FillThrows(thisOrder, quantity),
                    was |-> thisOrder]
    /\ thisOrder' = IF FillThrows(thisOrder, quantity) THEN thisOrder
                    ELSE Fill(thisOrder, quantity)
    /\ UNCHANGED <<bookVars, legs, ended, threadVars>>

NextOrder == \E quantity \in AllQuantities : FillOrder(quantity)

SpecOrder == InitOrder /\ [][NextOrder]_vars

\* ------------------------------------------- CanFillCompletely on its own
\* the books CanFillCompletely is asked about: up to MaxResting resting
\* good-till-cancel orders of one side, of every remaining quantity a
\* Quantity holds, placed one after the other
LiquidityOrders(side) ==
    UNION {[1..n -> Prices \X (1..(QuantityModulus - 1))] :
             n \in 0..MaxResting}

RECURSIVE PlaceAll(_, _, _, _)
PlaceAll(bk, side, resting, i) ==
    IF i > Len(resting) THEN bk
    ELSE PlaceAll(Place(bk, NewOrder(GoodTillCancel, i, side,
                                     resting[i][1], resting[i][2])),
                  side, resting, i + 1)

EmptyBook ==
    [bids |-> <<>>, asks |-> <<>>, orders |-> <<>>, arrival |-> <<>>,
     trades |-> <<>>, fills |-> <<>>, threw |-> FALSE]

InitLiquidity ==
    /\ \E side \in Sides : \E resting \in LiquidityOrders(side) :
          LET bk == PlaceAll(EmptyBook, side, resting, 1)
          IN /\ bids = bk.bids
             /\ asks = bk.asks
             /\ orders = bk.orders
             /\ arrival = bk.arrival
    /\ lastOp = [name |-> "none", arg |-> nullptr, outcome |-> "none"]
    /\ trades = <<>>
    /\ fills = <<>>
    /\ before = [bids |-> <<>>, asks |-> <<>>, orders |-> <<>>]
    /\ returned = NoResult
    /\ InitObject
    /\ legs = NoResult
    /\ ended = NoResult
    /\ InitThreads

\* a call CanFillCompletely(side, price, quantity) as AddOrder makes it for
\* a fill-or-kill order, whose quantity is never 0
CanFillCompletelyCall(side, price, quantity) ==
    /\ returned' = [value |-> CanFillCompletely(Book, side, price, quantity)]
    /\ lastOp' = [name |-> "CanFillCompletely",
                  arg |-> [side |-> side, price |-> price,
                           quantity |-> quantity],
                  outcome |-> "Success"]
    /\ UNCHANGED <<bids, asks, orders, arrival, trades, fills, before>>
    /\ UNCHANGED <<objectVars, legs, ended, threadVars>>

NextLiquidity ==
    \E side \in Sides, price \in Prices,
       quantity \in 1..(QuantityModulus - 1) :
        CanFillCompletelyCall(side, price, quantity)

SpecLiquidity == InitLiquidity /\ [][NextLiquidity]_vars

\* ------------------------------------------------------- the book on threads
\* the public methods as threads run them, one step per access to the book,
\* to the tracker or to a mutex; the calls are of two resting orders that
\* cross each other, their cancels and modifies, the readers, clear and the
\* tracker controls
ThreadIds == {1, 2}
ThreadOrders ==
    {nullptr}
        \cup {NewOrder(GoodTillCancel, i, s, MaxPrice, 1) :
                 i \in ThreadIds, s \in Sides}
ThreadModifies ==
    {NewOrderModify(1, s, MaxPrice, q) : s \in Sides, q \in {0, 1}}

LockedCalls == {"AddOrder", "CancelOrder", "MatchOrder", "Size",
                "GetOrderInfos"}
Calls ==
    [name : {"AddOrder"}, arg : ThreadOrders]
        \cup [name : {"CancelOrder"},
              arg : {[orderId |-> i] : i \in ThreadIds}]
        \cup [name : {"MatchOrder"}, arg : ThreadModifies]
        \cup [name : {"Size", "GetOrderInfos", "clear",
                      "resetPerformanceMetrics", "printPerformanceReport"},
              arg : {nullptr}]
        \cup [name : {"enablePerformanceTracking"},
              arg : {[enabled |-> b] : b \in BOOLEAN}]

\* the first statement of each public method
Entry(name) ==
    IF name \in LockedCalls THEN "perfLock"
    ELSE IF name = "clear" THEN "lock"
    ELSE IF name = "enablePerformanceTracking" THEN "setEnabled"
    ELSE IF name = "resetPerformanceMetrics" THEN "reset"
    ELSE "printReport"

bookState == <<bids, asks, orders>>
histories ==
    <<arrival, lastOp, trades, fills, before, returned, objectVars, legs,
      ended>>
tracker == <<enabled_, metrics_>>

Goto(self, label) == pc' = [pc EXCEPT ![self] = label]

\* the call of a thread returns: where it is kept, the history takes the
\* method and the outcome
Returned(self) ==
    results' = IF results = NoResult THEN results
               ELSE [results EXCEPT ![self] =
                        [name |-> frame[self].name,
                         arg |-> frame[self].arg,
                         outcome |-> frame[self].outcome]]

\* the calls of the fair specification: one order on each side, the cancel
\* and the modifies of the first, and every method without an argument
FairCalls ==
    {call \in Calls :
        IF call.name = "AddOrder"
        THEN call.arg \in {NewOrder(GoodTillCancel, 1, Buy, MaxPrice, 1),
                           NewOrder(GoodTillCancel, 2, Sell, MaxPrice, 1)}
        ELSE IF call.name = "CancelOrder" THEN call.arg.orderId = 1
        ELSE IF call.name = "MatchOrder" THEN call.arg.side = Buy
        ELSE TRUE}

\* a thread calls a public method
CallFrom(self, calls) ==
    /\ pc[self] = "idle"
    /\ \E call \in calls :
          /\ frame' = [frame EXCEPT ![self] =
                          [NoFrame EXCEPT !.name = call.name,
                                          !.arg = call.arg]]
          /\ Goto(self, Entry(call.name))
    /\ UNCHANGED <<bookState, histories, results,
                   performanceMutex_, orderBookMutex_,
                   tracker, committed>>

Call(self) == CallFrom(self, Calls)
FairCall(self) == CallFrom(self, FairCalls)

\* std::lock_guard<std::mutex> perfLock(performanceMutex_)
PerfLock(self) ==
    /\ pc[self] = "perfLock"
    /\ performanceMutex_ = NoThread
    /\ performanceMutex_' = self
    /\ Goto(self, IF frame[self].name = "AddOrder" THEN "validate"
                  ELSE IF frame[self].name \in {"Size", "GetOrderInfos"}
                  THEN "lockShared"
                  ELSE "lock")
    /\ UNCHANGED <<bookState, histories, results,
                   frame, orderBookMutex_, tracker,
                   committed>>

\* AddOrder: the checks of the handle, before the book lock is taken
Validate(self) ==
    /\ pc[self] = "validate"
    /\ LET order == frame[self].arg
           invalid == IF order = nullptr THEN TRUE
                      ELSE order.remainingQuantity = 0 \/ order.orderId = 0
       IN IF invalid
          THEN /\ frame' = [frame EXCEPT ![self].outcome = "Rejected"]
               /\ Goto(self, "record")
          ELSE /\ frame' = [frame EXCEPT ![self].order = order]
               /\ Goto(self, "lock")
    /\ UNCHANGED <<bookState, histories, results,
                   performanceMutex_, orderBookMutex_,
                   tracker, committed>>

\* a unique_lock that returns without taking the mutex
LockUniqueNotTaken(self) ==
    /\ pc[self] = "lock"
    /\ Goto(self, IF frame[self].name = "AddOrder" THEN "admit"
                  ELSE IF frame[self].name = "clear" THEN "clearBids"
                  ELSE "find")
    /\ UNCHANGED <<bookState, histories, results,
                   frame, performanceMutex_,
                   orderBookMutex_, tracker, committed>>

\* std::unique_lock<std::shared_mutex> lock(orderBookMutex_)
LockUnique(self) ==
    /\ pc[self] = "lock"
    /\ orderBookMutex_.exclusive = NoThread
    /\ orderBookMutex_.shared = {}
    /\ orderBookMutex_' = [orderBookMutex_ EXCEPT !.exclusive = self]
    /\ Goto(self, IF frame[self].name = "AddOrder" THEN "admit"
                  ELSE IF frame[self].name = "clear" THEN "clearBids"
                  ELSE "find")
    /\ UNCHANGED <<bookState, histories, results,
                   frame, performanceMutex_, tracker,
                   committed>>

\* std::shared_lock<std::shared_mutex> lock(orderBookMutex_)
LockShared(self) ==
    /\ pc[self] = "lockShared"
    /\ orderBookMutex_.exclusive = NoThread
    /\ orderBookMutex_' = [orderBookMutex_ EXCEPT !.shared = @ \cup {self}]
    /\ Goto(self, IF frame[self].name = "Size" THEN "size" ELSE "bidInfos")
    /\ UNCHANGED <<bookState, histories, results,
                   frame, performanceMutex_, tracker,
                   committed>>

\* CancelOrder, MatchOrder: orders_.find(orderId)
Find(self) ==
    /\ pc[self] = "find"
    /\ LET orderId == frame[self].arg.orderId
       IN IF orderId \notin DOMAIN orders
          THEN /\ frame' = [frame EXCEPT ![self].outcome = "NotFound"]
               /\ Goto(self, "record")
          ELSE /\ frame' = [frame EXCEPT
                               ![self].order = orders[orderId].order_]
               /\ Goto(self, "eraseNode")
    /\ UNCHANGED <<bookState, histories, results,
                   performanceMutex_, orderBookMutex_,
                   tracker, committed>>

\* CancelOrder, CancelOrderInternal: orders.erase(iterator) and the erase of
\* the level it empties
EraseNode(self) ==
    /\ pc[self] = "eraseNode"
    /\ LET entry == orders[frame[self].arg.orderId]
       IN IF entry.order_.side = Sell
          THEN /\ asks' = EraseFromLadder(asks, entry.order_.price,
                                          entry.location_)
               /\ UNCHANGED bids
          ELSE /\ bids' = EraseFromLadder(bids, entry.order_.price,
                                          entry.location_)
               /\ UNCHANGED asks
    /\ Goto(self, "eraseIndex")
    /\ UNCHANGED <<orders, histories, results,
                   frame, performanceMutex_,
                   orderBookMutex_, tracker, committed>>

\* a modify made of the public CancelOrder and AddOrder: the locks are
\* released once the cancel is done
EraseIndexThenUnlocks(self) ==
    /\ pc[self] = "eraseIndex"
    /\ orders' = MapErase(orders, frame[self].arg.orderId)
    /\ IF frame[self].name = "CancelOrder"
       THEN /\ frame' = [frame EXCEPT ![self].outcome = "Success"]
            /\ Goto(self, "record")
            /\ UNCHANGED <<performanceMutex_, orderBookMutex_>>
       ELSE /\ UNCHANGED frame
            /\ Goto(self, "construct")
            /\ performanceMutex_' = NoThread
            /\ orderBookMutex_' = [orderBookMutex_ EXCEPT
                                      !.exclusive = NoThread]
    /\ UNCHANGED <<bids, asks, histories, results,
                   tracker, committed>>

\* CancelOrder, CancelOrderInternal: orders_.erase(orderId)
EraseIndex(self) ==
    /\ pc[self] = "eraseIndex"
    /\ orders' = MapErase(orders, frame[self].arg.orderId)
    /\ IF frame[self].name = "CancelOrder"
       THEN /\ frame' = [frame EXCEPT ![self].outcome = "Success"]
            /\ Goto(self, "record")
       ELSE /\ UNCHANGED frame
            /\ Goto(self, "construct")
    /\ UNCHANGED <<bids, asks, histories, results,
                   performanceMutex_, orderBookMutex_,
                   tracker, committed>>

\* a modify that hands the replacement to the public AddOrder, which takes
\* performanceMutex_ again
ConstructThenPublicAddOrder(self) ==
    /\ pc[self] = "construct"
    /\ frame' = [frame EXCEPT ![self].order =
                    ToOrderPointer(frame[self].arg,
                                   frame[self].order.orderType)]
    /\ Goto(self, "perfLock")
    /\ UNCHANGED <<bookState, histories, results,
                   performanceMutex_, orderBookMutex_,
                   tracker, committed>>

\* MatchOrder: order.ToOrderPointer(orderType); an exception of the Order
\* constructor leaves the method through the destructors of the two locks
Construct(self) ==
    /\ pc[self] = "construct"
    /\ LET arg == frame[self].arg
       IN IF OrderCtorThrows(arg.orderId, arg.quantity)
          THEN /\ frame' = [frame EXCEPT ![self].outcome = "Threw"]
               /\ Goto(self, "unlock")
          ELSE /\ frame' = [frame EXCEPT ![self].order =
                               ToOrderPointer(arg,
                                              frame[self].order.orderType)]
               /\ Goto(self, "admit")
    /\ UNCHANGED <<bookState, histories, results,
                   performanceMutex_, orderBookMutex_,
                   tracker, committed>>

\* an admission that looks up nothing and checks nothing
AdmitWithoutFind(self) ==
    /\ pc[self] = "admit"
    /\ Goto(self, "pushBack")
    /\ UNCHANGED <<bookState, histories, results, frame, performanceMutex_,
                   orderBookMutex_, tracker, committed>>

\* AddOrder, AddOrderInternal: the duplicate check and the checks of the
\* order type; MatchOrder counts a replacement that is turned down as done
Admit(self) ==
    /\ pc[self] = "admit"
    /\ IF Rejected(Book, frame[self].order)
       THEN /\ frame' = [frame EXCEPT ![self].outcome =
                            IF frame[self].name = "AddOrder" THEN "Rejected"
                            ELSE "Success"]
            /\ Goto(self, "record")
       ELSE /\ UNCHANGED frame
            /\ Goto(self, "pushBack")
    /\ UNCHANGED <<bookState, histories, results,
                   performanceMutex_, orderBookMutex_,
                   tracker, committed>>

\* AddOrder, AddOrderInternal: orders.push_back(order)
PushBackOrder(self) ==
    /\ pc[self] = "pushBack"
    /\ LET order == frame[self].order
       IN IF order.side = Buy
          THEN /\ bids' = PushBack(bids, order.price, order)
               /\ UNCHANGED asks
          ELSE /\ asks' = PushBack(asks, order.price, order)
               /\ UNCHANGED bids
    /\ Goto(self, "insert")
    /\ UNCHANGED <<orders, histories, results,
                   frame, performanceMutex_,
                   orderBookMutex_, tracker, committed>>

\* AddOrder, AddOrderInternal: orders_.insert({id, OrderEntry{order, it}})
InsertEntry(self) ==
    /\ pc[self] = "insert"
    /\ LET order == frame[self].order
           queue == IF order.side = Buy THEN bids[order.price]
                    ELSE asks[order.price]
       IN orders' = IndexInsert(orders, order.orderId,
                                [order_ |-> order,
                                 location_ |-> PrevEnd(queue)])
    /\ Goto(self, "match")
    /\ UNCHANGED <<bids, asks, histories, results,
                   frame, performanceMutex_,
                   orderBookMutex_, tracker, committed>>

\* MatchOrders: the while (true) loop
RunMatchLoop(self) ==
    /\ pc[self] = "match"
    /\ LET m == MatchLoop(Book)
       IN /\ bids' = m.bids
          /\ asks' = m.asks
          /\ orders' = m.orders
    /\ Goto(self, "sweep")
    /\ UNCHANGED <<histories, results,
                   frame, performanceMutex_, orderBookMutex_,
                   tracker, committed>>

\* MatchOrders: the cancel of the ImmediateOrCancel and FillOrKill orders
SweepOrders(self) ==
    /\ pc[self] = "sweep"
    /\ LET c == CancelAll(Book, OrdersToCancel(orders))
       IN /\ bids' = c.bids
          /\ asks' = c.asks
          /\ orders' = c.orders
    /\ Goto(self, "recordMatchOrders")
    /\ UNCHANGED <<histories, results,
                   frame, performanceMutex_, orderBookMutex_,
                   tracker, committed>>

\* the values of metrics_ the model tells apart
MetricsValues == {"empty", "recorded", "torn"}

\* PerformanceTracker::recordOperation by a thread that goes on at label:
\* nothing if tracking is disabled, else an entry of metrics_ is updated. A
\* read of enabled_ that races with setEnabled sees either value, and an
\* update of metrics_ that races with reset or with printReport leaves any
\* value.
RecordOperation(self, operationName, label) ==
    /\ \E on \in (IF \E t \in Threads \ {self} : pc[t] = "setEnabled"
                  THEN BOOLEAN ELSE {enabled_}) :
          IF on
          THEN metrics_' \in
                  (IF \E t \in Threads \ {self} :
                         pc[t] \in {"reset", "printReport"}
                   THEN MetricsValues ELSE {"recorded"})
          ELSE UNCHANGED metrics_
    /\ frame' = [frame EXCEPT
                    ![self].invoked = Append(@, operationName),
                    ![self].outcome = IF @ = "none" THEN "Success" ELSE @]
    /\ Goto(self, label)
    /\ UNCHANGED <<bookState, histories, results,
                   performanceMutex_, orderBookMutex_,
                   enabled_, committed>>

\* MatchOrders: recordOperation("MatchOrders", startTime, trades.size())
RecordMatchOrders(self) ==
    /\ pc[self] = "recordMatchOrders"
    /\ RecordOperation(self, "MatchOrders", "recordSuccess")

\* AddOrder, MatchOrder: recordOperation of the success, after MatchOrders
RecordSuccess(self) ==
    /\ pc[self] = "recordSuccess"
    /\ RecordOperation(self,
                       IF frame[self].name = "AddOrder"
                       THEN "AddOrder_Success" ELSE "MatchOrder_Success",
                       "unlock")

\* the operation name a method records for an outcome it found
OperationName(name, outcome) ==
    IF name = "AddOrder" THEN "AddOrder_Rejected"
    ELSE IF name = "CancelOrder"
    THEN (IF outcome = "NotFound" THEN "CancelOrder_NotFound"
          ELSE "CancelOrder_Success")
    ELSE IF name = "MatchOrder"
    THEN (IF outcome = "NotFound" THEN "MatchOrder_NotFound"
          ELSE "MatchOrder_Success")
    ELSE name

\* recordOperation before a return; the destructor of the book lock runs
\* next if the method has taken it
Record(self) ==
    /\ pc[self] = "record"
    /\ RecordOperation(self,
                       OperationName(frame[self].name, frame[self].outcome),
                       IF \/ orderBookMutex_.exclusive = self
                          \/ self \in orderBookMutex_.shared
                       THEN "unlock" ELSE "perfUnlock")

\* Size: orders_.size()
ReadSize(self) ==
    /\ pc[self] = "size"
    /\ frame' = [frame EXCEPT ![self].result = [size |-> SizeInternal(Book)]]
    /\ Goto(self, "record")
    /\ UNCHANGED <<bookState, histories, results,
                   performanceMutex_, orderBookMutex_,
                   tracker, committed>>

\* GetOrderInfos: the loop over bids_
ReadBidInfos(self) ==
    /\ pc[self] = "bidInfos"
    /\ frame' = [frame EXCEPT ![self].result =
                    [bids_ |-> LevelInfos(bids, Descending(DOMAIN bids))]]
    /\ Goto(self, "askInfos")
    /\ UNCHANGED <<bookState, histories, results,
                   performanceMutex_, orderBookMutex_,
                   tracker, committed>>

\* GetOrderInfos: the loop over asks_, and the result
ReadAskInfos(self) ==
    /\ pc[self] = "askInfos"
    /\ frame' = [frame EXCEPT ![self].result =
                    [bids_ |-> frame[self].result.bids_,
                     asks_ |-> LevelInfos(asks, Ascending(DOMAIN asks))]]
    /\ Goto(self, "record")
    /\ UNCHANGED <<bookState, histories, results,
                   performanceMutex_, orderBookMutex_,
                   tracker, committed>>

\* clear: bids_.clear()
ClearBids(self) ==
    /\ pc[self] = "clearBids"
    /\ bids' = ClearBook(Book).bids
    /\ Goto(self, "clearAsks")
    /\ UNCHANGED <<asks, orders, histories, results,
                   frame, performanceMutex_,
                   orderBookMutex_, tracker, committed>>

\* clear: asks_.clear()
ClearAsks(self) ==
    /\ pc[self] = "clearAsks"
    /\ asks' = ClearBook(Book).asks
    /\ Goto(self, "clearOrders")
    /\ UNCHANGED <<bids, orders, histories, results,
                   frame, performanceMutex_,
                   orderBookMutex_, tracker, committed>>

\* clear: orders_.clear()
ClearOrders(self) ==
    /\ pc[self] = "clearOrders"
    /\ orders' = ClearBook(Book).orders
    /\ frame' = [frame EXCEPT ![self].outcome = "Success"]
    /\ Goto(self, "unlock")
    /\ UNCHANGED <<bids, asks, histories, results,
                   performanceMutex_, orderBookMutex_,
                   tracker, committed>>

\* the destructor of the unique_lock or shared_lock on orderBookMutex_; the
\* destructor of perfLock runs next if the method has taken it, else the
\* method returns to its caller
Unlock(self) ==
    /\ pc[self] = "unlock"
    /\ IF frame[self].name \in {"Size", "GetOrderInfos"}
       THEN /\ orderBookMutex_' = [orderBookMutex_ EXCEPT
                                      !.shared = @ \ {self}]
            /\ UNCHANGED committed
       ELSE /\ orderBookMutex_' = [orderBookMutex_ EXCEPT !.exclusive =
                                      IF @ = self THEN NoThread ELSE @]
            /\ committed' = [bids |-> bids, asks |-> asks, orders |-> orders]
    /\ IF performanceMutex_ = self
       THEN Goto(self, "perfUnlock") /\ UNCHANGED <<frame, results>>
       ELSE /\ Goto(self, "idle")
            /\ frame' = [frame EXCEPT ![self] = NoFrame]
            /\ Returned(self)
    /\ UNCHANGED <<bookState, histories, performanceMutex_, tracker>>

\* the destructor of perfLock, and the return to the caller
PerfUnlock(self) ==
    /\ pc[self] = "perfUnlock"
    /\ performanceMutex_' = IF performanceMutex_ = self THEN NoThread
                            ELSE performanceMutex_
    /\ frame' = [frame EXCEPT ![self] = NoFrame]
    /\ Returned(self)
    /\ Goto(self, "idle")
    /\ UNCHANGED <<bookState, histories, orderBookMutex_, tracker, committed>>

\* enablePerformanceTracking: PerformanceTracker::setEnabled, under no lock
SetEnabled(self) ==
    /\ pc[self] = "setEnabled"
    /\ enabled_' = frame[self].arg.enabled
    /\ frame' = [frame EXCEPT ![self] = NoFrame]
    /\ Returned(self)
    /\ Goto(self, "idle")
    /\ UNCHANGED <<bookState, histories, performanceMutex_, orderBookMutex_,
                   metrics_, committed>>

\* resetPerformanceMetrics: PerformanceTracker::reset, under no lock; a
\* clear of metrics_ that races with an update or with another clear leaves
\* any value
Reset(self) ==
    /\ pc[self] = "reset"
    /\ metrics_' \in
          (IF \E t \in Threads \ {self} :
                 pc[t] \in {"reset", "record", "recordMatchOrders",
                            "recordSuccess"}
           THEN MetricsValues ELSE {"empty"})
    /\ frame' = [frame EXCEPT ![self] = NoFrame]
    /\ Returned(self)
    /\ Goto(self, "idle")
    /\ UNCHANGED <<bookState, histories, performanceMutex_, orderBookMutex_,
                   enabled_, committed>>

\* printPerformanceReport: PerformanceTracker::printReport reads enabled_ and
\* metrics_, under no lock
PrintReport(self) ==
    /\ pc[self] = "printReport"
    /\ frame' = [frame EXCEPT ![self] = NoFrame]
    /\ Returned(self)
    /\ Goto(self, "idle")
    /\ UNCHANGED <<bookState, histories, performanceMutex_, orderBookMutex_,
                   tracker, committed>>

\* a step of a thread inside a call
Proceed(self) ==
    \/ PerfLock(self)
    \/ Validate(self)
    \/ LockUnique(self)
    \/ LockShared(self)
    \/ Find(self)
    \/ EraseNode(self)
    \/ EraseIndex(self)
    \/ Construct(self)
    \/ Admit(self)
    \/ PushBackOrder(self)
    \/ InsertEntry(self)
    \/ RunMatchLoop(self)
    \/ SweepOrders(self)
    \/ RecordMatchOrders(self)
    \/ RecordSuccess(self)
    \/ Record(self)
    \/ ReadSize(self)
    \/ ReadBidInfos(self)
    \/ ReadAskInfos(self)
    \/ ClearBids(self)
    \/ ClearAsks(self)
    \/ ClearOrders(self)
    \/ Unlock(self)
    \/ PerfUnlock(self)
    \/ SetEnabled(self)
    \/ Reset(self)
    \/ PrintReport(self)

NextThreads == \E self \in Threads : Call(self) \/ Proceed(self)

SpecThreads == Init /\ [][NextThreads]_vars

\* -------------------------------------- two adds that carry the same id
\* each thread calls AddOrder once, with a good-till-cancel order of id 1
\* that crosses neither the order the other thread is adding nor an order
\* in the book; the history keeps what each call returned
SameIdOrders ==
    {NewOrder(GoodTillCancel, 1, s, p, q) :
        s \in Sides, p \in Prices, q \in Quantities}

NonCrossing(a, b) ==
    \/ a.side = b.side
    \/ a.side = Buy /\ NoCross(a.price, b.price)
    \/ a.side = Sell /\ NoCross(b.price, a.price)

NoCall == [name |-> "none", arg |-> nullptr, outcome |-> "none"]

InitSameId ==
    /\ InitBook
    /\ InitObject
    /\ legs = NoResult
    /\ ended = NoResult
    /\ InitCalls
    /\ results = [t \in Threads |-> NoCall]

CallOnce(self) ==
    /\ results[self] = NoCall
    /\ CallFrom(self,
                {call \in [name : {"AddOrder"}, arg : SameIdOrders] :
                    /\ \A t \in Threads \ {self} :
                          /\ pc[t] # "idle" =>
                                NonCrossing(call.arg, frame[t].arg)
                          /\ results[t] # NoCall =>
                                NonCrossing(call.arg, results[t].arg)})

\* the statements of AddOrder
AddOrderSteps(self) ==
    \/ PerfLock(self)
    \/ Validate(self)
    \/ LockUnique(self)
    \/ Admit(self)
    \/ PushBackOrder(self)
    \/ InsertEntry(self)
    \/ RunMatchLoop(self)
    \/ SweepOrders(self)
    \/ RecordMatchOrders(self)
    \/ RecordSuccess(self)
    \/ Record(self)
    \/ Unlock(self)
    \/ PerfUnlock(self)

NextSameId == \E self \in Threads : CallOnce(self) \/ AddOrderSteps(self)

SpecSameId == InitSameId /\ [][NextSameId]_vars

\* the same under a scheduler and mutexes that are fair to every thread: a
\* step that is possible again and again is taken
FairNextThreads == \E self \in Threads : FairCall(self) \/ Proceed(self)

FairSpecThreads ==
    /\ Init
    /\ [][FairNextThreads]_vars
    /\ \A self \in Threads : SF_vars(Proceed(self))

\* ------------------------------------------------------------- observation
\* the orders held by the nodes of a queue / of a ladder
QueueSet(queue) == {queue[i] : i \in DOMAIN queue}
Resting(ladder) == UNION {QueueSet(ladder[p]) : p \in DOMAIN ladder}

\* the nodes of both ladders, as <<side, level, position>>
NodesOf(ladder, side) ==
    UNION {{<<side, p, i>> : i \in DOMAIN ladder[p]} : p \in DOMAIN ladder}
AllNodes == NodesOf(bids, Buy) \cup NodesOf(asks, Sell)
NodeOrder(n) == IF n[1] = Buy THEN bids[n[2]][n[3]] ELSE asks[n[2]][n[3]]

\* the order carrying an id in a ladder
FindOrder(ladder, id) == CHOOSE o \in Resting(ladder) : o.orderId = id

\* at one side and price, a was admitted before b
Before(history, side, price, a, b) ==
    /\ <<side, price>> \in DOMAIN history
    /\ LET seq == history[<<side, price>>]
       IN \E i, j \in DOMAIN seq : i < j /\ seq[i] = a /\ seq[j] = b

QuantityOK(o) == 0 < o.remainingQuantity /\ o.remainingQuantity <= o.initialQuantity

\* the last call ran the matcher and it traded
Traded == lastOp.name \in {"AddOrder", "MatchOrder"} /\ Len(trades) > 0

\* ------------------------------------------------------------------ claims

\* C1: after any sequence of add, cancel, modify and clear, whenever both
\* ladders are non-empty the best bid price is strictly less than the best
\* ask price.
NeverCrossedAtRest ==
    (DOMAIN bids # {} /\ DOMAIN asks # {})
        => Max(DOMAIN bids) < Min(DOMAIN asks)

\* a match that left orders resting on both sides
WitnessNeverCrossedAtRest ==
    Traded /\ DOMAIN bids # {} /\ DOMAIN asks # {}

\* C2: an id is in the index iff an order with that id sits in exactly one
\* ladder node, that node is in the level keyed by the order's own price on
\* the order's own side, and the index entry refers to that node and to that
\* order; no id occurs twice in the book.
IndexMatchesLadders ==
    /\ \A id \in DOMAIN orders :
          LET e == orders[id]
              holders == {n \in AllNodes : NodeOrder(n).orderId = id}
          IN /\ e.order_.orderId = id
             /\ Cardinality(holders) = 1
             /\ \A n \in holders :
                   /\ n[1] = e.order_.side
                   /\ n[2] = e.order_.price
                   /\ NodeOrder(n) = e.order_
                   /\ e.location_ = NodeOrder(n).orderId
    /\ \A n \in AllNodes : NodeOrder(n).orderId \in DOMAIN orders

\* two orders share a level after a match removed a third
WitnessIndexMatchesLadders ==
    /\ Traded
    /\ \E n \in AllNodes : n[3] = 2

\* C3: every price level present in either ladder holds a non-empty queue.
NoEmptyLevel ==
    /\ \A p \in DOMAIN bids : bids[p] # <<>>
    /\ \A p \in DOMAIN asks : asks[p] # <<>>

\* a match filled the last order of the only ask level, the level is gone
\* and bids still rest
WitnessNoEmptyLevel ==
    /\ Traded
    /\ DOMAIN bids # {}
    /\ DOMAIN asks = {}
    /\ \E k \in DOMAIN fills : DOMAIN fills[k].asks # {}

\* C4: every order resting in the book has 0 < remainingQty <= initialQty,
\* at rest and between any two trades of one matching run (an order whose
\* remaining quantity reaches 0 leaves the ladder and the index in the step
\* that filled it).
RestingQuantityInRange ==
    /\ \A o \in Resting(bids) \cup Resting(asks) : QuantityOK(o)
    /\ \A id \in DOMAIN orders : QuantityOK(orders[id].order_)
    /\ \A k \in DOMAIN fills :
          \A o \in Resting(fills[k].bids) \cup Resting(fills[k].asks) :
             QuantityOK(o)

\* a partly filled order rests after a match that also filled an order
WitnessRestingQuantityInRange ==
    /\ Traded
    /\ \E o \in Resting(bids) \cup Resting(asks) :
          o.remainingQuantity < o.initialQuantity
    /\ \E k \in DOMAIN fills :
          Cardinality(Resting(fills[k].bids) \cup Resting(fills[k].asks))
             > Cardinality(DOMAIN orders)

\* C5: time priority: no order receives a fill while an earlier-admitted
\* order of the same side and price still rests.
TimePriority ==
    \A k \in DOMAIN fills :
       LET f == fills[k]
           bid == FindOrder(f.bids, f.trade.bidTrade_.orderId_)
           ask == FindOrder(f.asks, f.trade.askTrade_.orderId_)
       IN /\ \A o \in Resting(f.bids) :
                o.price = bid.price
                   => ~Before(f.arrival, Buy, bid.price, o.orderId,
                              bid.orderId)
          /\ \A o \in Resting(f.asks) :
                o.price = ask.price
                   => ~Before(f.arrival, Sell, ask.price, o.orderId,
                              ask.orderId)

\* a trade against a level that held two orders
WitnessTimePriority ==
    \E k \in DOMAIN fills :
       \E p \in DOMAIN fills[k].bids :
          /\ Len(fills[k].bids[p]) >= 2
          /\ fills[k].trade.bidTrade_.orderId_ = fills[k].bids[p][1].orderId

\* C6: price priority: every trade crosses the best bid level against the
\* best ask level; no order is filled while another order of its side rests
\* at a strictly better price.
PricePriority ==
    \A k \in DOMAIN fills :
       LET f == fills[k]
           bid == FindOrder(f.bids, f.trade.bidTrade_.orderId_)
           ask == FindOrder(f.asks, f.trade.askTrade_.orderId_)
       IN /\ bid.price = Max(DOMAIN f.bids)
          /\ ask.price = Min(DOMAIN f.asks)
          /\ \A o \in Resting(f.bids) : o.price <= bid.price
          /\ \A o \in Resting(f.asks) : o.price >= ask.price

\* a trade while the bid ladder held two levels
WitnessPricePriority ==
    \E k \in DOMAIN fills : Cardinality(DOMAIN fills[k].bids) >= 2

Crossable(side, price, levelPrice) ==
    IF side = Buy THEN price >= levelPrice ELSE price <= levelPrice

RECURSIVE SumRemaining(_)
SumRemaining(S) ==
    IF S = {} THEN 0
    ELSE LET o == CHOOSE x \in S : TRUE
         IN o.remainingQuantity + SumRemaining(S \ {o})

\* the remaining quantity resting on the other side at crossable prices
CrossableLiquidity(bidLadder, askLadder, side, price) ==
    SumRemaining({o \in Resting(IF side = Buy THEN askLadder ELSE bidLadder) :
                     Crossable(side, price, o.price)})

TypeRests(bidLadder, askLadder, index, type) ==
    \/ \E o \in Resting(bidLadder) \cup Resting(askLadder) : o.orderType = type
    \/ \E id \in DOMAIN index : index[id].order_.orderType = type

\* C8: in every trade the execution price is the limit price of the resting
\* side, the order that was in the book before the add that triggered the
\* trade (an aggressive sell executes at the resting bid's price).
TradeAtRestingPrice ==
    \A k \in DOMAIN fills :
       LET f == fills[k]
           bid == FindOrder(f.bids, f.trade.bidTrade_.orderId_)
           ask == FindOrder(f.asks, f.trade.askTrade_.orderId_)
           resting == IF bid.orderId = lastOp.arg.orderId THEN ask ELSE bid
       IN /\ f.trade.bidTrade_.price_ = resting.price
          /\ f.trade.askTrade_.price_ = resting.price

\* C9: Fill-Or-Kill is all-or-nothing: an add of a FillOrKill order is either
\* rejected, with no trades and the book unchanged, or its trades sum on the
\* order's leg to exactly the order's quantity; in both cases no FillOrKill
\* order is in the book when add returns.
FillOrKillAllOrNothing ==
    [][(/\ lastOp'.name = "AddOrder"
        /\ lastOp'.arg # nullptr
        /\ lastOp'.arg.orderType = FillOrKill)
         => LET o == lastOp'.arg
            IN /\ \/ /\ lastOp'.outcome = "Rejected"
                     /\ trades' = <<>>
                     /\ bids' = bids /\ asks' = asks /\ orders' = orders
                  \/ /\ lastOp'.outcome = "Success"
                     /\ LegQuantity(trades', o.side, o.orderId)
                           = o.remainingQuantity
                     /\ o.orderId \notin DOMAIN orders'
               /\ ~TypeRests(bids', asks', orders', FillOrKill)]_vars

\* a FillOrKill order filled by two trades
WitnessFillOrKillAllOrNothing ==
    /\ lastOp.name = "AddOrder"
    /\ lastOp.outcome = "Success"
    /\ lastOp.arg.orderType = FillOrKill
    /\ Len(trades) >= 2

\* C10: an admitted add of an ImmediateOrCancel order trades, on that
\* order's leg, min(order quantity, remaining quantity resting on the other
\* side at crossable prices), which is at least 1, and the residual is
\* cancelled: the order is not in the book when add returns.
ImmediateOrCancelTakesAvailable ==
    [][(/\ lastOp'.name = "AddOrder"
        /\ lastOp'.outcome = "Success"
        /\ lastOp'.arg.orderType = ImmediateOrCancel)
         => LET o == lastOp'.arg
                got == LegQuantity(trades', o.side, o.orderId)
            IN /\ got = Min({o.remainingQuantity,
                             CrossableLiquidity(bids, asks, o.side, o.price)})
               /\ got >= 1
               /\ o.orderId \notin DOMAIN orders'
               /\ ~TypeRests(bids', asks', orders', ImmediateOrCancel)]_vars

\* an ImmediateOrCancel order traded and its residual was cancelled
WitnessImmediateOrCancelTakesAvailable ==
    /\ lastOp.name = "AddOrder"
    /\ lastOp.outcome = "Success"
    /\ lastOp.arg.orderType = ImmediateOrCancel
    /\ LegQuantity(trades, lastOp.arg.side, lastOp.arg.orderId)
          < lastOp.arg.remainingQuantity

\* the book as it was when the last call began
BookBefore ==
    [bids |-> before.bids, asks |-> before.asks, orders |-> before.orders,
     arrival |-> <<>>, trades |-> <<>>, fills |-> <<>>, threw |-> FALSE]

\* the call that has just ended changed neither ladder nor the index
BookUnchanged ==
    bids = before.bids /\ asks = before.asks /\ orders = before.orders

\* C11: every rejected add (null handle, zero remaining quantity, zero id,
\* id already in the index, ImmediateOrCancel with nothing crossable,
\* FillOrKill with insufficient crossable liquidity) returns no trade and
\* leaves the bid ladder, the ask ladder, the index and every resting
\* order's remaining quantity as they were.
RejectedAddChangesNothing ==
    (lastOp.name = "AddOrder" /\ lastOp.outcome = "Rejected")
        => /\ trades = <<>>
           /\ BookUnchanged
           /\ Resting(bids) = Resting(before.bids)
           /\ Resting(asks) = Resting(before.asks)

\* a FillOrKill order was rejected although the book held an order at a
\* price it crosses
WitnessRejectedAddChangesNothing ==
    /\ lastOp.name = "AddOrder"
    /\ lastOp.outcome = "Rejected"
    /\ lastOp.arg # nullptr
    /\ IF lastOp.arg = nullptr THEN FALSE
       ELSE /\ lastOp.arg.orderType = FillOrKill
            /\ lastOp.arg.remainingQuantity > 0
            /\ lastOp.arg.orderId \notin DOMAIN before.orders
            /\ CanMatch(BookBefore, lastOp.arg.side, lastOp.arg.price)

\* C12: an add whose id is the id of an order resting in the book is
\* rejected with no trades even when its side and price cross the book, and
\* the resting order keeps its side, price, remaining quantity and queue
\* position.
DuplicateIdRejected ==
    (/\ lastOp.name = "AddOrder"
     /\ IF lastOp.arg = nullptr THEN FALSE
        ELSE lastOp.arg.orderId \in DOMAIN before.orders)
        => LET id == lastOp.arg.orderId
           IN /\ lastOp.outcome = "Rejected"
              /\ trades = <<>>
              /\ id \in DOMAIN orders
              /\ orders[id] = before.orders[id]
              /\ bids = before.bids
              /\ asks = before.asks

\* the rejected duplicate was a live order of the other side at a price
\* that crosses the resting order of its id
WitnessDuplicateIdRejected ==
    /\ lastOp.name = "AddOrder"
    /\ IF lastOp.arg = nullptr THEN FALSE
       ELSE /\ lastOp.arg.orderId \in DOMAIN before.orders
            /\ lastOp.arg.remainingQuantity > 0
            /\ lastOp.arg.orderType = GoodTillCancel
            /\ lastOp.arg.side
                  # before.orders[lastOp.arg.orderId].order_.side
            /\ CanMatch(BookBefore, lastOp.arg.side, lastOp.arg.price)

\* the crossable-price rule against the best opposite price of a book
CrossesBest(bidLadder, askLadder, side, price) ==
    IF side = Buy
    THEN DOMAIN askLadder # {} /\ price >= Min(DOMAIN askLadder)
    ELSE DOMAIN bidLadder # {} /\ price <= Max(DOMAIN bidLadder)

\* queue a is an initial part of queue b
IsPrefix(a, b) == Len(a) <= Len(b) /\ SubSeq(b, 1, Len(a)) = a

\* every level of ladder a is a level of ladder b that begins with the
\* same orders
LevelsKept(a, b) ==
    \A p \in DOMAIN a : p \in DOMAIN b /\ IsPrefix(a[p], b[p])

\* C13: crossing rule: an admitted add emits at least one trade iff the
\* opposite ladder is non-empty and its best price is crossable with the
\* order's limit (Buy at P: P >= best ask; Sell at P: P <= best bid), for
\* negative prices like for the others; when it is not crossable the add
\* emits no trade and changes no other order.
CrossingRule ==
    (lastOp.name = "AddOrder" /\ lastOp.outcome = "Success")
        => LET o == lastOp.arg
               crosses == CrossesBest(before.bids, before.asks, o.side,
                                      o.price)
           IN /\ (trades # <<>>) <=> crosses
              /\ ~crosses
                    => /\ \A id \in DOMAIN before.orders :
                             id \in DOMAIN orders
                                /\ orders[id] = before.orders[id]
                       /\ LevelsKept(before.bids, bids)
                       /\ LevelsKept(before.asks, asks)
                       /\ IF o.side = Buy THEN asks = before.asks
                          ELSE bids = before.bids

\* an order of negative limit price traded on arrival
WitnessCrossingRule ==
    /\ lastOp.name = "AddOrder"
    /\ lastOp.outcome = "Success"
    /\ trades # <<>>
    /\ IF lastOp.arg = nullptr THEN FALSE ELSE lastOp.arg.price < 0

\* a ladder with every node of one id taken out, and the levels that this
\* empties dropped
Without(ladder, id) ==
    LET rest(p) == SelectSeq(ladder[p], LAMBDA n : n.orderId # id)
    IN [p \in {q \in DOMAIN ladder : rest(q) # <<>>} |-> rest(p)]

\* C14: cancel of an id that is not in the index changes nothing; cancel of
\* a resting order removes exactly that order from its queue and from the
\* index, emits no trade, and leaves every other order's remaining quantity
\* and the relative FIFO order of all other orders as they were.
CancelFrame ==
    lastOp.name = "CancelOrder"
        => LET id == lastOp.arg.orderId
           IN /\ trades = <<>>
              /\ IF id \notin DOMAIN before.orders
                 THEN lastOp.outcome = "NotFound" /\ BookUnchanged
                 ELSE /\ lastOp.outcome = "Success"
                      /\ DOMAIN orders = DOMAIN before.orders \ {id}
                      /\ \A j \in DOMAIN orders :
                            orders[j] = before.orders[j]
                      /\ bids = Without(before.bids, id)
                      /\ asks = Without(before.asks, id)

\* the cancelled order was behind another one in its level
WitnessCancelFrame ==
    /\ lastOp.name = "CancelOrder"
    /\ lastOp.outcome = "Success"
    /\ \E p \in DOMAIN before.bids :
          /\ Len(before.bids[p]) = 2
          /\ before.bids[p][2].orderId = lastOp.arg.orderId
          /\ p \in DOMAIN bids
          /\ bids[p] = <<before.bids[p][1]>>

\* the book a cancel of the order just added leaves
AddThenCancel == CancelOrderInternal(Book, lastOp.arg.orderId)

\* the book an add of the order followed by a cancel of its id leaves
RoundTrip(order) ==
    CancelOrderInternal(AddOrderInternal(Book, order), order.orderId)

\* the round trip seen from the state the add has left: a cancel of the new
\* id leads back to the book as it was when the add began
RoundTripAfterAdd ==
    (/\ lastOp.name = "AddOrder"
     /\ lastOp.outcome = "Success"
     /\ ~CrossesBest(before.bids, before.asks, lastOp.arg.side,
                     lastOp.arg.price))
        => /\ lastOp.arg.orderId \in DOMAIN orders
           /\ SizeInternal(AddThenCancel) = SizeInternal(BookBefore)
           /\ AddThenCancel.bids = before.bids
           /\ AddThenCancel.asks = before.asks
           /\ AddThenCancel.orders = before.orders

\* the round trip from every book between two calls, the fullest included
RoundTripFromAnyBook ==
    Idle => \A order \in FreshOrders :
               (/\ order.orderId \notin DOMAIN orders
                /\ ~Rejected(Book, order)
                /\ ~CrossesBest(bids, asks, order.side, order.price))
                  => /\ SizeInternal(RoundTrip(order)) = SizeInternal(Book)
                     /\ RoundTrip(order).bids = bids
                     /\ RoundTrip(order).asks = asks
                     /\ RoundTrip(order).orders = orders

\* C15: round trip: an add of a fresh-id order that does not cross,
\* followed by cancel of that id, restores the size, the bid ladder and the
\* ask ladder (levels, queue contents and queue order) exactly to their
\* state before the add.
AddCancelRoundTrip == RoundTripAfterAdd /\ RoundTripFromAnyBook

\* the added order joined a level that held another order
WitnessAddCancelRoundTrip ==
    /\ lastOp.name = "AddOrder"
    /\ lastOp.outcome = "Success"
    /\ trades = <<>>
    /\ \E n \in AllNodes : n[3] = 2 /\ NodeOrder(n) = lastOp.arg
    /\ AddThenCancel.bids = before.bids
    /\ AddThenCancel.asks = before.asks

\* the queue of the level an order rests in
LevelOf(bidLadder, askLadder, o) ==
    IF o.side = Buy THEN bidLadder[o.price] ELSE askLadder[o.price]

\* C16: modify loses time priority: after a modify of a resting order, even
\* to identical side, price and quantity, the replacement sits at the tail
\* of its destination level, so every order that was behind it at that
\* level is now ahead of it and is filled before it.
ModifyLosesPriority ==
    (/\ lastOp.name = "MatchOrder"
     /\ lastOp.outcome = "Success"
     /\ lastOp.arg.orderId \in DOMAIN orders)
        => LET id == lastOp.arg.orderId
               o == orders[id].order_
               queue == LevelOf(bids, asks, o)
               history == arrival[<<o.side, o.price>>]
           IN /\ o.side = lastOp.arg.side
              /\ o.price = lastOp.arg.price
              /\ queue[Len(queue)].orderId = id
              /\ history[Len(history)] = id
              /\ \A i \in 1..(Len(queue) - 1) :
                    Before(arrival, o.side, o.price, queue[i].orderId, id)

\* the head of a level of two orders was modified to its own side, price
\* and quantity, and is now behind the other order
WitnessModifyLosesPriority ==
    /\ lastOp.name = "MatchOrder"
    /\ lastOp.outcome = "Success"
    /\ \E p \in DOMAIN before.bids :
          /\ Len(before.bids[p]) = 2
          /\ before.bids[p][1].orderId = lastOp.arg.orderId
          /\ lastOp.arg.side = Buy
          /\ lastOp.arg.price = p
          /\ lastOp.arg.quantity = before.bids[p][1].remainingQuantity
          /\ p \in DOMAIN bids
          /\ Len(bids[p]) = 2
          /\ bids[p][1] = before.bids[p][2]
          /\ bids[p][2].orderId = lastOp.arg.orderId

\* the nodes of the book that hold an order of this id
Holders(id) == {n \in AllNodes : NodeOrder(n).orderId = id}

\* C17: a modify of a resting order whose replacement does not cross leaves
\* the book size unchanged, and the book holds exactly one order under that
\* id, with the amendment's side, price and quantity (remaining = initial =
\* amendment quantity, whatever the original had been filled) and the
\* original order's type.
ModifyReplaces ==
    (/\ lastOp.name = "MatchOrder"
     /\ lastOp.outcome = "Success"
     /\ ~CrossesBest(Without(before.bids, lastOp.arg.orderId),
                     Without(before.asks, lastOp.arg.orderId),
                     lastOp.arg.side, lastOp.arg.price))
        => LET m == lastOp.arg
               id == m.orderId
               original == before.orders[id].order_
               replacement ==
                   [orderType |-> original.orderType, orderId |-> id,
                    side |-> m.side, price |-> m.price,
                    initialQuantity |-> m.quantity,
                    remainingQuantity |-> m.quantity]
           IN /\ trades = <<>>
              /\ SizeInternal(Book) = SizeInternal(BookBefore)
              /\ id \in DOMAIN orders
              /\ orders[id].order_ = replacement
              /\ Cardinality(Holders(id)) = 1
              /\ \A n \in Holders(id) :
                    /\ NodeOrder(n) = replacement
                    /\ n[1] = m.side
                    /\ n[2] = m.price

\* a partly filled order was modified to the other side, another price and
\* a larger quantity without crossing
WitnessModifyReplaces ==
    /\ lastOp.name = "MatchOrder"
    /\ lastOp.outcome = "Success"
    /\ trades = <<>>
    /\ lastOp.arg.orderId \in DOMAIN before.orders
    /\ IF lastOp.arg.orderId \notin DOMAIN before.orders THEN FALSE
       ELSE LET original == before.orders[lastOp.arg.orderId].order_
            IN /\ original.remainingQuantity < original.initialQuantity
               /\ lastOp.arg.quantity > original.remainingQuantity
               /\ lastOp.arg.side # original.side
               /\ lastOp.arg.price # original.price
               /\ SizeInternal(Book) = 2

\* C18: modify of an id that is not in the index returns an empty trade
\* list and leaves both ladders and the index unchanged; it never admits
\* the amendment as a new order.
ModifyUnknownId ==
    (/\ lastOp.name = "MatchOrder"
     /\ lastOp.arg.orderId \notin DOMAIN before.orders)
        => /\ lastOp.outcome = "NotFound"
           /\ trades = <<>>
           /\ BookUnchanged
           /\ lastOp.arg.orderId \notin DOMAIN orders
           /\ Holders(lastOp.arg.orderId) = {}

\* the unknown amendment was a constructible order at a price that crosses
\* the book
WitnessModifyUnknownId ==
    /\ lastOp.name = "MatchOrder"
    /\ lastOp.outcome = "NotFound"
    /\ lastOp.arg.orderId # 0
    /\ lastOp.arg.quantity > 0
    /\ CanMatch(BookBefore, lastOp.arg.side, lastOp.arg.price)

\* the replacement of the last modify entered the book: it rests under the
\* id, or it has traded
ReplacementAdmitted ==
    \/ lastOp.arg.orderId \in DOMAIN orders
    \/ \E k \in DOMAIN trades :
          \/ trades[k].bidTrade_.orderId_ = lastOp.arg.orderId
          \/ trades[k].askTrade_.orderId_ = lastOp.arg.orderId

\* C19: modify of an existing id is all-or-nothing: when the call ends, by
\* returning or by a propagated failure (such as the construction failure
\* of a replacement of quantity 0), either the replacement has been
\* admitted under that id or the book is exactly as before the call; the
\* original order is never removed without its replacement being admitted.
ModifyAllOrNothing ==
    (/\ lastOp.name = "MatchOrder"
     /\ lastOp.arg.orderId \in DOMAIN before.orders)
        => \/ lastOp.outcome = "Success" /\ ReplacementAdmitted
           \/ BookUnchanged

\* the exact sum of the remaining quantities of a queue
RECURSIVE SumQueue(_)
SumQueue(queue) ==
    IF queue = <<>> THEN 0
    ELSE Head(queue).remainingQuantity + SumQueue(Tail(queue))

\* one entry per level of the ladder, in strictly falling (bids) or strictly
\* rising (asks) price order
SnapshotLevels(infos, ladder, side) ==
    /\ Len(infos) = Cardinality(DOMAIN ladder)
    /\ {infos[i].price_ : i \in DOMAIN infos} = DOMAIN ladder
    /\ \A i, j \in DOMAIN infos :
          i < j => IF side = Buy THEN infos[i].price_ > infos[j].price_
                   ELSE infos[i].price_ < infos[j].price_

\* every entry carries the exact sum of its level
SnapshotSums(infos, ladder) ==
    \A i \in DOMAIN infos :
       infos[i].price_ \in DOMAIN ladder
          /\ infos[i].quantity_ = SumQueue(ladder[infos[i].price_])

\* C20: snapshot (GetOrderInfos) returns one entry per price level, bids in
\* strictly descending and asks in strictly ascending price order, and each
\* entry's quantity equals the sum of the remaining quantities of all
\* orders resting at that level at that moment; size returns the number of
\* resting orders.
SnapshotAndSize ==
    /\ lastOp.name = "GetOrderInfos"
          => /\ SnapshotLevels(returned.bids_, bids, Buy)
             /\ SnapshotLevels(returned.asks_, asks, Sell)
             /\ SnapshotSums(returned.bids_, bids)
             /\ SnapshotSums(returned.asks_, asks)
    /\ lastOp.name = "Size" => returned = Cardinality(AllNodes)

\* the largest value a Quantity holds
MaxOfQuantity == QuantityModulus - 1

\* an entry of a level whose remaining quantities add up to more than a
\* Quantity holds carries that exact sum
WideSums(infos, ladder) ==
    \A i \in DOMAIN infos :
       (/\ infos[i].price_ \in DOMAIN ladder
        /\ SumQueue(ladder[infos[i].price_]) > MaxOfQuantity)
          => infos[i].quantity_ = SumQueue(ladder[infos[i].price_])

\* C21: snapshot aggregates each level in unsigned 64-bit arithmetic: the
\* reported per-level quantity is the exact sum of the remaining quantities
\* even when that sum exceeds the largest Quantity, with no wrap-around
\* modulo the width of Quantity.
SnapshotAggregatesWide ==
    lastOp.name = "GetOrderInfos"
        => WideSums(returned.bids_, bids) /\ WideSums(returned.asks_, asks)

\* a resting order of the given id is admitted to the book
Admissible(bk, id) ==
    \A side \in Sides, price \in Prices, quantity \in Quantities :
       ~Rejected(bk, NewOrder(GoodTillCancel, id, side, price, quantity))

\* C22: clear empties both ladders and the index, from any state: afterwards
\* size is 0 and the snapshot is empty, a second clear changes nothing, and
\* every id, those that rested before the clear included, is admitted again.
ClearEmptiesBook ==
    lastOp.name = "clear"
        => /\ bids = <<>> /\ asks = <<>> /\ orders = <<>>
           /\ SizeInternal(Book) = 0
           /\ GetOrderInfosInternal(Book) = [bids_ |-> <<>>, asks_ |-> <<>>]
           /\ LET again == ClearBook(Book)
              IN  /\ again.bids = bids
                  /\ again.asks = asks
                  /\ again.orders = orders
           /\ \A id \in OrderIds : Admissible(Book, id)

\* a clear of a book that held orders on both sides
WitnessClearEmptiesBook ==
    /\ lastOp.name = "clear"
    /\ before.bids # <<>>
    /\ before.asks # <<>>
    /\ Cardinality(DOMAIN before.orders) = MaxResting

LegsWithinInitialPerOrder ==
    legs # NoResult =>
        \A id \in OrderIds : legs[id].sum <= legs[id].initial

\* an order of the largest quantity used up by two trades
WitnessLegsWithinInitialPerOrder ==
    /\ legs # NoResult
    /\ \E id \in OrderIds :
          /\ legs[id].initial = MaxQuantity
          /\ legs[id].sum = MaxQuantity
          /\ LegQuantity(trades, Buy, id) + LegQuantity(trades, Sell, id)
                 \in 1..(MaxQuantity - 1)

\* C28: over any sequence of operations, for every order id the sum of the
\* quantities of all emitted trade legs carrying that id is at most the
\* initial quantity of that order.
LegsWithinInitialPerId ==
    legs # NoResult =>
        \A id \in OrderIds :
           legs[id].initial > 0 => legs[id].ever <= legs[id].initial

\* ---------------------------------------------------- observation of threads
\* the statements that read the book and those that change it
BookReads == {"admit", "find", "size", "bidInfos", "askInfos"}
BookWrites == {"eraseNode", "eraseIndex", "pushBack", "insert", "match",
               "sweep", "clearBids", "clearAsks", "clearOrders"}
\* the statements inside recordOperation
TrackerRecords == {"record", "recordMatchOrders", "recordSuccess"}
ExclusiveCalls == {"AddOrder", "CancelOrder", "MatchOrder", "clear"}
SharedCalls == {"Size", "GetOrderInfos"}

\* a book is whole: not crossed, no empty level, and the ids queued in the
\* ladders are the ids of the index, each queued once
Whole(b, a, index) ==
    /\ (DOMAIN b # {} /\ DOMAIN a # {}) => Max(DOMAIN b) < Min(DOMAIN a)
    /\ \A p \in DOMAIN b : b[p] # <<>>
    /\ \A p \in DOMAIN a : a[p] # <<>>
    /\ {o.orderId : o \in Resting(b) \cup Resting(a)} = DOMAIN index
    /\ Cardinality(NodesOf(b, Buy) \cup NodesOf(a, Sell))
          = Cardinality(DOMAIN index)

\* the book is as the last whole operation left it
AsCommitted ==
    /\ bids = committed.bids
    /\ asks = committed.asks
    /\ orders = committed.orders
    /\ Whole(bids, asks, orders)

\* what a reader that still holds the lock has got is the size, or the
\* snapshot, of the book the last whole operation left
ReadOfCommitted(f, at) ==
    IF f.name = "Size"
    THEN at \in {"record", "unlock"}
            => f.result = [size |-> Cardinality(DOMAIN committed.orders)]
    ELSE /\ at \in {"askInfos", "record", "unlock"}
            => f.result.bids_
                  = LevelInfos(committed.bids,
                               Descending(DOMAIN committed.bids))
         /\ at \in {"record", "unlock"}
            => f.result.asks_
                  = LevelInfos(committed.asks,
                               Ascending(DOMAIN committed.asks))

\* C23: add, cancel, modify and clear hold the book lock exclusively from
\* their first to their last access to the ladders and the index, and a
\* concurrent size or snapshot reads, and returns the value of, the book as
\* it is between two whole operations: never a crossed book, never an order
\* queued but not indexed, never a level counted twice or missed.
ReadersSeeWholeOperations ==
    \A t \in Threads :
       /\ (/\ frame[t].name \in ExclusiveCalls
           /\ pc[t] \in BookReads \cup BookWrites \cup {"construct"})
             => /\ orderBookMutex_.exclusive = t
                /\ orderBookMutex_.shared = {}
       /\ (/\ frame[t].name \in SharedCalls
           /\ pc[t] \in {"size", "bidInfos", "askInfos", "record", "unlock"})
             => /\ t \in orderBookMutex_.shared
                /\ orderBookMutex_.exclusive = NoThread
                /\ AsCommitted
                /\ ReadOfCommitted(frame[t], pc[t])

\* a snapshot half taken of a book with an order, while a clear waits for
\* the lock
WitnessReadersSeeWholeOperations ==
    \E t \in Threads, u \in Threads :
       /\ frame[t].name = "GetOrderInfos"
       /\ pc[t] = "askInfos"
       /\ DOMAIN bids # {}
       /\ frame[u].name = "clear"
       /\ pc[u] = "lock"

\* the statements of MatchOrder from its find to the end of the re-add
ModifySection ==
    {"find", "eraseNode", "eraseIndex", "construct", "admit", "pushBack",
     "insert", "match", "sweep"}

\* C24: modify is linearizable: its cancel and its re-add run in one
\* exclusive critical section, so that no concurrent size, snapshot, cancel
\* or add, one with the same id included, observes or acts on the state in
\* between, in which the order is absent.
ModifyIsOneCriticalSection ==
    \A t \in Threads :
       (frame[t].name = "MatchOrder" /\ pc[t] \in ModifySection)
          => /\ orderBookMutex_.exclusive = t
             /\ \A u \in Threads \ {t} :
                   /\ pc[u] \notin BookReads \cup BookWrites
                   /\ u \notin orderBookMutex_.shared

\* a modify between its cancel and its re-add, the id absent from the book,
\* while another thread has called add with that id
WitnessModifyIsOneCriticalSection ==
    \E t \in Threads, u \in Threads :
       /\ frame[t].name = "MatchOrder"
       /\ pc[t] = "admit"
       /\ frame[t].arg.orderId \notin DOMAIN orders
       /\ frame[u].name = "AddOrder"
       /\ pc[u] = "perfLock"
       /\ IF frame[u].arg = nullptr THEN FALSE
          ELSE frame[u].arg.orderId = frame[t].arg.orderId

\* C25: size and snapshot take the book lock in shared mode, so two threads
\* can be inside size or snapshot at the same time: a thread that has called
\* size or snapshot is let in while another thread is reading inside one.
ReadersAdmitReaders ==
    \A t \in Threads, u \in Threads :
       (/\ t # u
        /\ frame[t].name \in SharedCalls
        /\ pc[t] \in {"size", "bidInfos", "askInfos"}
        /\ frame[u].name \in SharedCalls
        /\ pc[u] = "perfLock")
          => ENABLED PerfLock(u)

\* thread t waits for a mutex that thread u holds
WaitsFor(t, u) ==
    \/ pc[t] = "perfLock" /\ performanceMutex_ = u
    \/ pc[t] = "lock"
       /\ (orderBookMutex_.exclusive = u \/ u \in orderBookMutex_.shared)
    \/ pc[t] = "lockShared" /\ orderBookMutex_.exclusive = u

\* the threads t waits for, directly or through others
RECURSIVE WaitChain(_, _)
WaitChain(S, n) ==
    IF n = 0 THEN S
    ELSE WaitChain(S \cup {u \in Threads : \E t \in S : WaitsFor(t, u)},
                   n - 1)
Blockers(t) ==
    WaitChain({u \in Threads : WaitsFor(t, u)}, Cardinality(Threads))

\* no thread waits for a mutex it holds, and no threads wait in a cycle
NoWaitCycle == \A t \in Threads : t \notin Blockers(t)

\* every call that has started returns
EveryCallReturns == \A t \in Threads : (pc[t] # "idle") ~> (pc[t] = "idle")

UnderItsMutex(t) ==
    /\ pc[t] \in BookWrites => orderBookMutex_.exclusive = t
    /\ (pc[t] \in BookReads
           \/ (pc[t] = "record" /\ frame[t].name = "GetOrderInfos"))
          => (orderBookMutex_.exclusive = t \/ t \in orderBookMutex_.shared)
    /\ pc[t] \in TrackerRecords \cup {"setEnabled", "reset", "printReport"}
          => performanceMutex_ = t
Conflict(t, u) ==
    \/ pc[t] \in BookWrites /\ pc[u] \in BookReads \cup BookWrites
    \/ pc[t] = "setEnabled"
       /\ pc[u] \in TrackerRecords \cup {"setEnabled", "printReport"}
    \/ pc[t] \in TrackerRecords \cup {"reset"}
       /\ pc[u] \in TrackerRecords \cup {"reset", "printReport"}

\* C27: the ladders, the index, the metrics of the tracker and its enabled
\* flag are only accessed under the mutex that guards them, and no two
\* threads access the same state at the same time when one of them writes;
\* this for every public method, clear, enablePerformanceTracking,
\* resetPerformanceMetrics and printPerformanceReport included.
SharedStateUnderItsMutex ==
    \A t \in Threads :
       /\ UnderItsMutex(t)
       /\ \A u \in Threads \ {t} : ~Conflict(t, u)

\* the event the call of a thread is to record, by its outcome
ExpectedEvent(f) ==
    IF f.name \in SharedCalls THEN f.name
    ELSE IF f.name = "AddOrder"
    THEN (IF f.outcome = "Rejected" THEN "AddOrder_Rejected"
          ELSE "AddOrder_Success")
    ELSE IF f.name = "CancelOrder"
    THEN (IF f.outcome = "NotFound" THEN "CancelOrder_NotFound"
          ELSE "CancelOrder_Success")
    ELSE IF f.name = "MatchOrder"
    THEN (IF f.outcome = "NotFound" THEN "MatchOrder_NotFound"
          ELSE "MatchOrder_Success")
    ELSE "clear"

\* a call of add, cancel, modify, size, snapshot or clear at its last
\* statement
AboutToReturn(t) ==
    \/ pc[t] = "perfUnlock"
    \/ pc[t] = "unlock" /\ frame[t].name = "clear"

\* C29: the tracker is invoked exactly once per call of a public operation:
\* each call of add, cancel, modify, size, snapshot or clear has handed the
\* tracker exactly one event when it returns, named by its outcome.
OneEventPerCall ==
    \A t \in Threads :
       AboutToReturn(t) => frame[t].invoked = <<ExpectedEvent(frame[t])>>

\* the two orders of the k-th trade of the last call as they were just before
\* it, and the ladders just after it
BidOf(k) == FindOrder(fills[k].bids, fills[k].trade.bidTrade_.orderId_)
AskOf(k) == FindOrder(fills[k].asks, fills[k].trade.askTrade_.orderId_)
AfterTrade(k) ==
    IF k < Len(fills) THEN [bids |-> fills[k + 1].bids,
                            asks |-> fills[k + 1].asks]
    ELSE [bids |-> bids, asks |-> asks]
Ids(ladder) == {o.orderId : o \in Resting(ladder)}

\* C31: the matcher terminates from every finite book state: each inner
\* iteration fully fills and removes at least one of the two head orders,
\* each outer iteration either erases a price level or stops on a book that
\* is not crossed, and so one add emits at most as many trades as there are
\* orders in the book when matching starts.
MatcherTerminates ==
    /\ \A k \in DOMAIN fills :
          LET quantity == fills[k].trade.bidTrade_.quantity_
              after == AfterTrade(k)
          IN /\ \/ /\ BidOf(k).remainingQuantity = quantity
                   /\ BidOf(k).orderId \notin Ids(after.bids)
                \/ /\ AskOf(k).remainingQuantity = quantity
                   /\ AskOf(k).orderId \notin Ids(after.asks)
             /\ \/ /\ k < Len(fills)
                   /\ BidOf(k + 1).price = BidOf(k).price
                   /\ AskOf(k + 1).price = AskOf(k).price
                \/ BidOf(k).price \notin DOMAIN after.bids
                \/ AskOf(k).price \notin DOMAIN after.asks
    /\ (DOMAIN bids # {} /\ DOMAIN asks # {}) => NoCross(BestBid(bids),
                                                         BestAsk(asks))
    /\ Len(fills) > 0 =>
          Len(trades) <= Cardinality(NodesOf(fills[1].bids, Buy)
                                       \cup NodesOf(fills[1].asks, Sell))

\* a match of two trades that used up one bid level and went on to the next
WitnessMatcherTerminates ==
    /\ Traded
    /\ Len(fills) = 2
    /\ BidOf(1).price # BidOf(2).price
    /\ DOMAIN bids = {}

\* the order o of one side as the k-th trade left it: at the head of the
\* queue it was in, ahead of the orders that were behind it, indexed, with
\* its remaining quantity reduced by the trade quantity
StaysAtHead(o, queue, queueAfter, index, quantity) ==
    /\ queue[1] = o
    /\ Len(queueAfter) = Len(queue)
    /\ queueAfter[1] = [o EXCEPT !.remainingQuantity = @ - quantity]
    /\ \A i \in 2..Len(queue) : queueAfter[i] = queue[i]
    /\ o.orderId \in DOMAIN index
    /\ index[o.orderId].order_ = queueAfter[1]

\* the order o of one side as the k-th trade left it: in no queue of its
\* side and not indexed, the orders behind it moved up
Removed(o, queue, ladderAfter, index) ==
    /\ queue[1] = o
    /\ o.orderId \notin Ids(ladderAfter)
    /\ o.orderId \notin DOMAIN index
    /\ ladderAfter[o.price] = Tail(queue)

Unequal(k) == BidOf(k).remainingQuantity # AskOf(k).remainingQuantity

\* C32: when the two head orders have different remaining quantities, the
\* trade quantity is the smaller one, the smaller order is removed from the
\* book, and the larger order stays at the head of its queue with its
\* remaining quantity reduced by exactly the trade quantity.
PartialFill ==
    \A k \in DOMAIN fills :
        Unequal(k) =>
          LET f == fills[k]
              bid == BidOf(k)
              ask == AskOf(k)
              quantity == f.trade.bidTrade_.quantity_
          IN /\ f.trade.askTrade_.quantity_ = quantity
             /\ quantity = Min({bid.remainingQuantity, ask.remainingQuantity})
             /\ IF bid.remainingQuantity < ask.remainingQuantity
                THEN /\ Removed(bid, f.bids[bid.price], f.bidsAfter,
                                f.ordersAfter)
                     /\ StaysAtHead(ask, f.asks[ask.price],
                                    f.asksAfter[ask.price], f.ordersAfter,
                                    quantity)
                ELSE /\ Removed(ask, f.asks[ask.price], f.asksAfter,
                                f.ordersAfter)
                     /\ StaysAtHead(bid, f.bids[bid.price],
                                    f.bidsAfter[bid.price], f.ordersAfter,
                                    quantity)

\* a resting bid with another bid behind it was filled in part
WitnessPartialFill ==
    /\ Traded
    /\ \E k \in DOMAIN fills :
          /\ Unequal(k)
          /\ BidOf(k).remainingQuantity > AskOf(k).remainingQuantity
          /\ Len(fills[k].bids[BidOf(k).price]) > 1
          /\ FindOrder(bids, BidOf(k).orderId).remainingQuantity
                = BidOf(k).remainingQuantity
                    - fills[k].trade.bidTrade_.quantity_

\* the last call was an admitted add of a good-till-cancel order
AdmittedGoodTillCancel ==
    /\ lastOp.name = "AddOrder"
    /\ lastOp.outcome = "Success"
    /\ lastOp.arg.orderType = GoodTillCancel

\* initial quantity of the added order minus its legs in the returned list
RemainingAfterAdd ==
    lastOp.arg.initialQuantity
        - LegQuantity(trades, lastOp.arg.side, lastOp.arg.orderId)

TrueLiquidity(side, price) == CrossableLiquidity(bids, asks, side, price)

\* C34: canFillCompletely(side, price, qty) returns true exactly when the
\* unbounded sum of the remaining quantities of all opposite-side orders at
\* crossable prices is at least qty, for every quantity a Quantity holds,
\* books whose crossable liquidity adds up to more than the largest Quantity
\* included.
CanFillCompletelyExact ==
    lastOp.name = "CanFillCompletely" =>
        returned.value
            = (TrueLiquidity(lastOp.arg.side, lastOp.arg.price)
                 >= lastOp.arg.quantity)

\* the same for the books whose crossable liquidity fits a Quantity
CanFillCompletelyExactWhenNarrow ==
    (/\ lastOp.name = "CanFillCompletely"
     /\ TrueLiquidity(lastOp.arg.side, lastOp.arg.price) <= MaxOfQuantity)
        => returned.value
             = (TrueLiquidity(lastOp.arg.side, lastOp.arg.price)
                  >= lastOp.arg.quantity)

\* the last call placed an order: an admitted add, or a modify of a known id
\* whose replacement was constructed
Placed ==
    /\ lastOp.name \in {"AddOrder", "MatchOrder"}
    /\ lastOp.outcome = "Success"

\* the id of the order the last call placed
PlacedId == lastOp.arg.orderId

\* the orders that were in the book before the last call and are not after
Gone == {id \in DOMAIN before.orders : id \notin DOMAIN orders}

\* C35: after every completed operation the book holds only GoodTillCancel
\* orders, so the sweep after the match of an add cancels no order but the
\* one the add placed (an order that left the book in an add was filled
\* whole by the returned trades), and a modify re-adds a GoodTillCancel
\* order.
OnlyGoodTillCancelRests ==
    /\ \A o \in Resting(bids) \cup Resting(asks) :
          o.orderType = GoodTillCancel
    /\ \A id \in DOMAIN orders : orders[id].order_.orderType = GoodTillCancel
    /\ Placed =>
          \A id \in Gone \ {PlacedId} :
              LET o == before.orders[id].order_
              IN LegQuantity(trades, o.side, id) = o.remainingQuantity
    /\ (Placed /\ lastOp.name = "MatchOrder") =>
          /\ before.orders[PlacedId].order_.orderType = GoodTillCancel
          /\ PlacedId \in DOMAIN orders =>
                orders[PlacedId].order_.orderType = GoodTillCancel

\* an immediate-or-cancel order traded part of its quantity with the only
\* crossing order and its remainder was cancelled; another order rests on
WitnessOnlyGoodTillCancelRests ==
    /\ Placed
    /\ lastOp.name = "AddOrder"
    /\ lastOp.arg.orderType = ImmediateOrCancel
    /\ Len(trades) > 0
    /\ LegQuantity(trades, lastOp.arg.side, PlacedId)
          < lastOp.arg.initialQuantity
    /\ PlacedId \notin DOMAIN orders
    /\ DOMAIN orders # {}

\* the Order object that last ended its life is the one the last call, an
\* add, was given, and it is in the book
RestsAgain ==
    /\ ended # NoResult
    /\ ended.order # nullptr
    /\ lastOp.name = "AddOrder"
    /\ lastOp.outcome = "Success"
    /\ lastOp.arg = ended.order
    /\ ended.order.orderId \in DOMAIN orders
    /\ orders[ended.order.orderId].order_.remainingQuantity > 0

\* C36: terminal states are absorbing for an order identity: once the order
\* submitted under an id has become Filled, Cancelled or Rejected, no later
\* operation makes that identity Resting or PartiallyFilled again.
TerminalIsAbsorbing == ~RestsAgain

\* the same for the one terminal state Filled
FilledIsAbsorbing ==
    (ended # NoResult /\ ended.state = "Filled") => ~RestsAgain

\* C37: limit prices are respected: for every trade the execution price is
\* at most the limit price of the buy order in its bid leg and at least the
\* limit price of the sell order in its ask leg.
LimitPricesRespected ==
    \A k \in DOMAIN fills :
        LET trade == fills[k].trade
        IN /\ trade.bidTrade_.price_ <= BidOf(k).price
           /\ trade.askTrade_.price_ >= AskOf(k).price
           /\ trades[k] = trade

\* a buy traded below its limit price
WitnessLimitPricesRespected ==
    /\ Traded
    /\ \E k \in DOMAIN fills :
          /\ fills[k].trade.bidTrade_.price_ < BidOf(k).price
          /\ fills[k].trade.askTrade_.price_ = AskOf(k).price

\* the book when the last call began was not crossed
UncrossedBefore ==
    (DOMAIN before.bids # {} /\ DOMAIN before.asks # {}) =>
        NoCross(BestBid(before.bids), BestAsk(before.asks))

\* C38: every trade returned by an add, or by the add inside a modify, has
\* the order just placed as one of its two legs and an order that was
\* resting as the other: the book is not crossed before the add, and
\* matching never trades two orders that were both already resting.
PlacedOrderInEveryTrade ==
    Placed =>
      /\ UncrossedBefore
      /\ \A k \in DOMAIN trades :
            LET bid == trades[k].bidTrade_.orderId_
                ask == trades[k].askTrade_.orderId_
                side == lastOp.arg.side
                other == IF side = Buy THEN ask ELSE bid
            IN /\ (IF side = Buy THEN bid ELSE ask) = PlacedId
               /\ other # PlacedId
               /\ other \in DOMAIN before.orders
               /\ before.orders[other].order_.side # side

\* the replacement a modify placed traded with a resting order while the
\* order it replaced was on the other side
WitnessPlacedOrderInEveryTrade ==
    /\ Placed
    /\ lastOp.name = "MatchOrder"
    /\ Len(trades) > 0
    /\ before.orders[PlacedId].order_.side # lastOp.arg.side

\* C39: OverFill is unreachable through the book: in every sequence of add,
\* cancel, modify and clear operations the matcher calls Fill only with a
\* quantity q where 1 <= q <= remaining of both head orders, so every trade
\* has quantity >= 1 and no book operation fails with an over-fill error
\* (the only call that throws is a modify whose replacement the Order
\* constructor refuses).
OverFillUnreachable ==
    /\ \A k \in DOMAIN fills :
          LET q == fills[k].trade.bidTrade_.quantity_
          IN /\ fills[k].trade.askTrade_.quantity_ = q
             /\ 1 <= q
             /\ q <= BidOf(k).remainingQuantity
             /\ q <= AskOf(k).remainingQuantity
             /\ ~FillThrows(BidOf(k), q)
             /\ ~FillThrows(AskOf(k), q)
    /\ \A o \in Resting(bids) \cup Resting(asks) : o.remainingQuantity >= 1
    /\ lastOp.outcome = "Threw" =>
          /\ lastOp.name = "MatchOrder"
          /\ OrderCtorThrows(lastOp.arg.orderId, lastOp.arg.quantity)
          /\ trades = <<>>

\* a call of two trades: the first between heads of different remaining
\* quantities, the second filling both heads whole
WitnessOverFillUnreachable ==
    /\ Traded
    /\ Len(fills) = 2
    /\ fills[2].trade.bidTrade_.quantity_ = BidOf(2).remainingQuantity
    /\ fills[2].trade.bidTrade_.quantity_ = AskOf(2).remainingQuantity
    /\ BidOf(1).remainingQuantity # AskOf(1).remainingQuantity

\* the nodes of the ladders that hold an order of this id
NodesWithId(id) == {n \in AllNodes : NodeOrder(n).orderId = id}

\* both threads have returned from their add
BothReturned == \A t \in Threads : results[t].name = "AddOrder"

\* C40: when two threads concurrently add two non-crossing GoodTillCancel
\* orders carrying the same id to a book that does not hold that id, then
\* in every interleaving exactly one of the two adds is admitted and the
\* other is rejected as a duplicate; the index and the ladders never hold
\* two orders with that id.
OneOfTwoSameIdAddsAdmitted ==
    /\ Cardinality(NodesWithId(1)) <= 1
    /\ \A id \in DOMAIN orders :
          /\ id = 1
          /\ orders[id].order_.orderId = id
    /\ \A t \in Threads :
          (pc[t] # "idle" /\ frame[t].outcome = "Rejected") =>
             /\ 1 \in DOMAIN orders
             /\ \E u \in Threads \ {t} :
                   /\ results[u].outcome = "Success"
                   /\ orders[1].order_ = results[u].arg
    /\ BothReturned =>
          \E t \in Threads :
             /\ results[t].outcome = "Success"
             /\ \A u \in Threads \ {t} : results[u].outcome = "Rejected"
             /\ DOMAIN orders = {1}
             /\ orders[1].order_ = results[t].arg
             /\ \A n \in NodesWithId(1) : NodeOrder(n) = results[t].arg
             /\ Cardinality(NodesWithId(1)) = 1

\* both adds have returned; the two orders differed and the second thread
\* was the one admitted
WitnessOneOfTwoSameIdAddsAdmitted ==
    /\ BothReturned
    /\ results["t2"].outcome = "Success"
    /\ results["t1"].outcome = "Rejected"
    /\ results["t1"].arg # results["t2"].arg

\* one thread waits for the mutex of its add while the other, in its add
\* of the same id, is placing its order
AddsOverlap ==
    /\ pc["t1"] = "perfLock"
    /\ pc["t2"] = "insert"

====
